---- MODULE Spec2Model ----
(***************************************************************************)
(* Lanne AI: the orchestration pipeline (ReactOrchestrator, ExecutionPlan, *)
(* ExecutionContext, documented in contexto.md) and the two-tier           *)
(* conversation memory (sliding window of the last 6 messages + summary).  *)
(*                                                                         *)
(* Texts are sequences of tokens.  An Optional value is None (the empty    *)
(* tuple) or Some(v) (a one-element tuple).                                *)
(***************************************************************************)
EXTENDS Naturals, Sequences, FiniteSets

None == << >>

Some(v) == << v >>

Get(opt) == opt[1]

(***************************************************************************)
(* ConversationMemory                                                      *)
(***************************************************************************)

\* "Janela deslizante - ultimas 6 mensagens + resumo"
windowSize == 6

\* Bound of the model: turns submitted over all conversations.
MaxTurns == 8

ConvIds == {"c1", "c2"}

Workers == {"w1", "w2"}

NoOwner == "free"

VARIABLES
    convState,   \* conversation id -> "EMPTY" | "ACTIVE"
    window,      \* conversation id -> the verbatim turns, oldest first
    summary,     \* conversation id -> the folded turns, oldest first
    committed,   \* conversation id -> every turn stored so far, in store order
    lock,        \* conversation id -> the worker inside its memory update
    memPc,       \* worker -> "idle" | "waiting" | "locked" | "loaded" | "updated"
    memConv,     \* worker -> the conversation it updates
    memTurn,     \* worker -> the turn it commits
    memLocal,    \* worker -> its working copy of the ConversationState
    turnCount    \* turns submitted so far

memVars == << convState, window, summary, committed, lock,
              memPc, memConv, memTurn, memLocal, turnCount >>

VARIABLES
    pc,            \* where the request is
    intent,        \* the result of classify_intent, "none" before
    plan,          \* None or Some(ExecutionPlan): what create_plan returned
    context,       \* the ExecutionContext of the request
    assembled,     \* None or Some(text): what build_context returned
    hasData,       \* what has_data returned
    answers,       \* what each source collaborator answers in this request
    called,        \* source -> "not_called" or the kind of answer it gave
    planner,       \* "not_called" or the kind of answer the planner call gave
    failure,       \* "none" or the call whose error ended the request
    prediction,    \* "none" or what the classifier pipeline produced for the query
    llmReplies,    \* how each call_llm call for the final answer ended, in order
    answer,        \* None or Some(text): what generate_response returned
    steps,         \* the pipeline steps started in this request, in order
    saved          \* whether the turn of this request reached the conversation store

orchVars == << pc, intent, plan, context, assembled, hasData,
               answers, called, planner, failure,
               prediction, llmReplies, answer, steps, saved >>

Readers == {"r1"}

VARIABLES
    readPc,        \* reader -> "idle" | "waiting" | "locked" | "summary" | "done"
    readConv,      \* reader -> the conversation whose context window it reads
    readFrom,      \* reader -> turns committed when its read began
    readResult     \* reader -> the (summary, verbatimTurns) pair it returns

readVars == << readPc, readConv, readFrom, readResult >>

VARIABLES
    isWaitingForResponse,   \* the page's flag: a chat request is being handled
    currentConversationId,  \* ConversationService.currentConversationId or "null"
    currentUser,            \* AuthService.currentUser or "null"
    chatPc,                 \* where generateBotResponse / sendChatMessage is
    reqConv,                \* the conversation id in the request being awaited
    conversations,          \* the conversation service: ids of the conversations
    messages,               \* the conversation service: id -> stored messages
    botResponse,            \* None or Some(n): the gateway's answer to message n
    shown,                  \* what the bot message element of the exchange shows
    exchanges,              \* outgoing messages accepted so far
    hung,                   \* the awaited request will never be answered
    requests                \* the fetches of the sendChatMessage call, in order

chatVars == << isWaitingForResponse, currentConversationId, currentUser, chatPc,
               reqConv, conversations, messages, botResponse, shown, exchanges,
               hung, requests >>

VARIABLES
    plannerReply   \* None or Some(reply): the planner reply handed to parse_plan

parseVars == << plannerReply >>

VARIABLES
    abandoned      \* the memory updates given up: the turn and the stage reached

cancelVars == << abandoned >>

VARIABLES
    token,         \* AuthService.token or "null"
    lanne_user,    \* localStorage 'lanne_user': None or Some(the stored string)
    lanne_token,   \* localStorage 'lanne_token': None or Some(the stored string)
    loginPc,       \* where AuthService.login is: "idle" | "login" | "register"
    loginUser,     \* the username login was called with
    authLog,       \* the requests of the last login call, with their answers
    userData,      \* None or Some(what the last OK response of login held)
    loginResult,   \* "none" | "pending" | "returned" | "thrown"
    logoutPc,      \* where AuthService.logout is: "idle" | "logout"
    logoutAnswer,  \* how the /logout request of the last logout call ended
    logoutResult   \* "none" | "pending" | "returned" | "thrown"

sessionVars == << currentUser, token, lanne_user, lanne_token >>

authVars == << token, lanne_user, lanne_token, loginPc, loginUser, authLog, userData,
              loginResult, logoutPc, logoutAnswer, logoutResult >>

VARIABLES
    page,          \* the document that is open
    location,      \* window.location.href: the page itself or the redirect target
    initPc,        \* the page's DOMContentLoaded handler
    guardPc,       \* the authentication guard's DOMContentLoaded handler
    historyLoaded, \* whether the page called loadConversationHistory
    validateHung   \* the /validate request will never be answered

pageVars == << page, location, initPc, guardPc, historyLoaded, validateHung >>

VARIABLES
    servicesOk,     \* ServiceChecker.servicesOk
    initializePc,   \* where serviceChecker.initialize() is
    servicesStatus, \* initialize: the results checkAllServices has collected
    modal,          \* the #services-modal in the document: the services it lists
    retryPc,        \* where the retry button's click handler is
    newStatus,      \* retry handler: the results checkAllServices has collected
    alerted         \* the services named by the last alert()

checkerVars == << servicesOk, initializePc, servicesStatus, modal, retryPc,
                 newStatus, alerted >>

VARIABLES
    wizardStep,      \* let wizardStep
    wizardData,      \* let wizardData
    rendered,        \* the step whose screen is in the card, 0 before the wizard
    statusMessage,   \* the text of #status-message
    connectPc,       \* where handleConnect is
    connectDisabled, \* connectBtn.disabled of the button on screen
    lanne_server_ip, \* localStorage entry
    lanne_agent_ip,  \* localStorage entry
    reloadPending    \* location.reload() is scheduled

wizardVars == << wizardStep, wizardData, rendered, statusMessage, connectPc,
                connectDisabled, lanne_server_ip, lanne_agent_ip, reloadPending >>

uiVars == << checkerVars, wizardVars >>

\* The chat page's state but the AuthService's currentUser.
chatRest == << isWaitingForResponse, currentConversationId, chatPc, reqConv,
               conversations, messages, botResponse, shown, exchanges, hung,
               requests >>

notMemVars == << orchVars, readVars, chatVars, parseVars, cancelVars, authVars,
                 pageVars, uiVars >>

notOrchVars == << memVars, readVars, chatVars, parseVars, cancelVars, authVars,
                  pageVars, uiVars >>

notReadVars == << orchVars, chatVars, parseVars, cancelVars, authVars, pageVars,
                  uiVars >>

notChatVars == << memVars, orchVars, readVars, parseVars, cancelVars, authVars,
                  pageVars, uiVars >>

notAuthVars == << memVars, orchVars, readVars, parseVars, cancelVars, chatRest,
                  uiVars >>

notUiVars == << memVars, orchVars, readVars, chatVars, parseVars, cancelVars,
                pageVars >>

EmptyState == [state |-> "EMPTY", window |-> << >>, summary |-> << >>]

NoTurn == [id |-> 0, role |-> "user"]

\* A chat alternates user messages and assistant replies.
NewTurn(n) == [id |-> n, role |-> IF n % 2 = 1 THEN "user" ELSE "assistant"]

TryLock_NoMutex(c) == TRUE

\* The mutual-exclusion scope: a worker enters only when nobody is inside.
TryLock(c) == lock[c] = NoOwner

\* Fold the evicted turns into the summary (concatenation).
FoldIntoSummary(sum, evicted) == sum \o evicted

EvictCount_OffByOne(n) == IF n > windowSize + 1 THEN n - windowSize - 1 ELSE 0

\* Number of turns to evict from a window of length n.
EvictCount(n) == IF n > windowSize THEN n - windowSize ELSE 0

AppendEvict_ResetsOnEvict(st, turn) ==
    LET w == Append(st.window, turn)
        k == EvictCount(Len(w))
    IN  [state   |-> IF k > 0 THEN "EMPTY" ELSE "ACTIVE",
         window  |-> SubSeq(w, k + 1, Len(w)),
         summary |-> FoldIntoSummary(st.summary, SubSeq(w, 1, k))]

AppendEvict_KeepsEvicted(st, turn) ==
    LET w == Append(st.window, turn)
        k == EvictCount(Len(w))
    IN  [state   |-> "ACTIVE",
         window  |-> IF k > 0 THEN SubSeq(w, k, Len(w)) ELSE w,
         summary |-> FoldIntoSummary(st.summary, SubSeq(w, 1, k))]

\* Append a turn, then evict the oldest turn(s) and fold them into the summary.
AppendEvict(st, turn) ==
    LET w == Append(st.window, turn)
        k == EvictCount(Len(w))
    IN  [state   |-> "ACTIVE",
         window  |-> SubSeq(w, k + 1, Len(w)),
         summary |-> FoldIntoSummary(st.summary, SubSeq(w, 1, k))]

MemInit ==
    /\ convState = [c \in ConvIds |-> "EMPTY"]
    /\ window = [c \in ConvIds |-> << >>]
    /\ summary = [c \in ConvIds |-> << >>]
    /\ committed = [c \in ConvIds |-> << >>]
    /\ lock = [c \in ConvIds |-> NoOwner]
    /\ memPc = [p \in Workers |-> "idle"]
    /\ memConv = [p \in Workers |-> "c1"]
    /\ memTurn = [p \in Workers |-> NoTurn]
    /\ memLocal = [p \in Workers |-> EmptyState]
    /\ turnCount = 0

\* A request arrives with a new turn for conversation c.
RequestUpdate(p, c) ==
    /\ memPc[p] = "idle"
    /\ turnCount < MaxTurns
    /\ turnCount' = turnCount + 1
    /\ memPc' = [memPc EXCEPT ![p] = "waiting"]
    /\ memConv' = [memConv EXCEPT ![p] = c]
    /\ memTurn' = [memTurn EXCEPT ![p] = NewTurn(turnCount + 1)]
    /\ UNCHANGED << convState, window, summary, committed, lock, memLocal >>
    /\ UNCHANGED notMemVars

\* The request enters the memory update of its conversation.
BeginUpdate(p) ==
    /\ memPc[p] = "waiting"
    /\ TryLock(memConv[p])
    /\ lock' = [lock EXCEPT ![memConv[p]] = p]
    /\ memPc' = [memPc EXCEPT ![p] = "locked"]
    /\ UNCHANGED << convState, window, summary, committed,
                    memConv, memTurn, memLocal, turnCount >>
    /\ UNCHANGED notMemVars

\* loadRecentTurns / loadSummary
LoadState(p) ==
    /\ memPc[p] = "locked"
    /\ memLocal' = [memLocal EXCEPT ![p] =
           [state |-> convState[memConv[p]],
            window |-> window[memConv[p]],
            summary |-> summary[memConv[p]]]]
    /\ memPc' = [memPc EXCEPT ![p] = "loaded"]
    /\ UNCHANGED << convState, window, summary, committed, lock,
                    memConv, memTurn, turnCount >>
    /\ UNCHANGED notMemVars

ApplyUpdate(p) ==
    /\ memPc[p] = "loaded"
    /\ memLocal' = [memLocal EXCEPT ![p] = AppendEvict(memLocal[p], memTurn[p])]
    /\ memPc' = [memPc EXCEPT ![p] = "updated"]
    /\ UNCHANGED << convState, window, summary, committed, lock,
                    memConv, memTurn, turnCount >>
    /\ UNCHANGED notMemVars

\* One window shared by every conversation.
StoreState_SharedWindow(p) ==
    /\ memPc[p] = "updated"
    /\ convState' = [convState EXCEPT ![memConv[p]] = memLocal[p].state]
    /\ window' = [c \in ConvIds |-> memLocal[p].window]
    /\ summary' = [summary EXCEPT ![memConv[p]] = memLocal[p].summary]
    /\ committed' = [committed EXCEPT ![memConv[p]] = Append(@, memTurn[p])]
    /\ lock' = [lock EXCEPT ![memConv[p]] = IF @ = p THEN NoOwner ELSE @]
    /\ memPc' = [memPc EXCEPT ![p] = "idle"]
    /\ memTurn' = [memTurn EXCEPT ![p] = NoTurn]
    /\ memLocal' = [memLocal EXCEPT ![p] = EmptyState]
    /\ memConv' = [memConv EXCEPT ![p] = "c1"]
    /\ UNCHANGED turnCount
    /\ UNCHANGED notMemVars

\* appendTurn / saveSummary, then leave the mutual-exclusion scope.
StoreState(p) ==
    /\ memPc[p] = "updated"
    /\ convState' = [convState EXCEPT ![memConv[p]] = memLocal[p].state]
    /\ window' = [window EXCEPT ![memConv[p]] = memLocal[p].window]
    /\ summary' = [summary EXCEPT ![memConv[p]] = memLocal[p].summary]
    /\ committed' = [committed EXCEPT ![memConv[p]] = Append(@, memTurn[p])]
    /\ lock' = [lock EXCEPT ![memConv[p]] = IF @ = p THEN NoOwner ELSE @]
    /\ memPc' = [memPc EXCEPT ![p] = "idle"]
    /\ memTurn' = [memTurn EXCEPT ![p] = NoTurn]
    /\ memLocal' = [memLocal EXCEPT ![p] = EmptyState]
    /\ memConv' = [memConv EXCEPT ![p] = "c1"]
    /\ UNCHANGED turnCount
    /\ UNCHANGED notMemVars

NoneAbandoned == abandoned = {}

InUpdate == {"waiting", "locked", "loaded", "updated"}

\* What the store holds for the conversation of p.
StoredState(p) ==
    [state   |-> convState[memConv[p]],
     window  |-> window[memConv[p]],
     summary |-> summary[memConv[p]]]

\* A cancellation between appendTurn and saveSummary: the new window is in
\* the store, the summary is not.
KeptOnAbandon_HalfWritten(p) ==
    IF memPc[p] = "updated"
    THEN [StoredState(p) EXCEPT !.window = memLocal[p].window]
    ELSE StoredState(p)

\* An abandoned update writes nothing: the store keeps what it held.
KeptOnAbandon(p) == StoredState(p)

\* The request is cancelled, or a later step of it failed, while its memory
\* update is under way: the update is given up and the scope is left.
AbandonUpdate(p) ==
    /\ memPc[p] \in InUpdate
    /\ abandoned' = abandoned \cup {[id |-> memTurn[p].id, at |-> memPc[p]]}
    /\ convState' = [convState EXCEPT ![memConv[p]] = KeptOnAbandon(p).state]
    /\ window' = [window EXCEPT ![memConv[p]] = KeptOnAbandon(p).window]
    /\ summary' = [summary EXCEPT ![memConv[p]] = KeptOnAbandon(p).summary]
    /\ lock' = [lock EXCEPT ![memConv[p]] = IF @ = p THEN NoOwner ELSE @]
    /\ memPc' = [memPc EXCEPT ![p] = "idle"]
    /\ memTurn' = [memTurn EXCEPT ![p] = NoTurn]
    /\ memLocal' = [memLocal EXCEPT ![p] = EmptyState]
    /\ memConv' = [memConv EXCEPT ![p] = "c1"]
    /\ UNCHANGED << committed, turnCount >>
    /\ UNCHANGED << orchVars, readVars, chatVars, parseVars, authVars, pageVars,
                    uiVars >>

CancelNext == \E p \in Workers : AbandonUpdate(p)

MemNext ==
    \/ \E p \in Workers, c \in ConvIds : RequestUpdate(p, c)
    \/ \E p \in Workers : BeginUpdate(p)
    \/ \E p \in Workers : LoadState(p)
    \/ \E p \in Workers : ApplyUpdate(p)
    \/ \E p \in Workers : StoreState(p)

(***************************************************************************)
(* ConversationMemory: getContextWindow                                    *)
(***************************************************************************)

NoResult == [summary |-> << >>, window |-> << >>]

ReadIdle ==
    /\ readPc = [r \in Readers |-> "idle"]
    /\ readConv = [r \in Readers |-> "c1"]
    /\ readFrom = [r \in Readers |-> 0]
    /\ readResult = [r \in Readers |-> NoResult]

ReadLock_NoMutex(c) == TRUE

\* The read is taken inside the mutual-exclusion scope of its conversation.
ReadLock(c) == TryLock(c)

\* getContextWindow(c) is called.
BeginRead(r, c) ==
    /\ readPc[r] = "idle"
    /\ readPc' = [readPc EXCEPT ![r] = "waiting"]
    /\ readConv' = [readConv EXCEPT ![r] = c]
    /\ readFrom' = [readFrom EXCEPT ![r] = Len(committed[c])]
    /\ readResult' = [readResult EXCEPT ![r] = NoResult]
    /\ UNCHANGED memVars
    /\ UNCHANGED notReadVars

EnterRead(r) ==
    /\ readPc[r] = "waiting"
    /\ ReadLock(readConv[r])
    /\ lock' = [lock EXCEPT ![readConv[r]] = IF @ = NoOwner THEN r ELSE @]
    /\ readPc' = [readPc EXCEPT ![r] = "locked"]
    /\ UNCHANGED << convState, window, summary, committed,
                    memPc, memConv, memTurn, memLocal, turnCount >>
    /\ UNCHANGED << readConv, readFrom, readResult >>
    /\ UNCHANGED notReadVars

\* loadSummary(conversationId)
LoadSummary(r) ==
    /\ readPc[r] = "locked"
    /\ readResult' = [readResult EXCEPT ![r].summary = summary[readConv[r]]]
    /\ readPc' = [readPc EXCEPT ![r] = "summary"]
    /\ UNCHANGED memVars
    /\ UNCHANGED << readConv, readFrom >>
    /\ UNCHANGED notReadVars

\* loadRecentTurns(conversationId, windowSize), then leave the scope.
LoadRecentTurns(r) ==
    /\ readPc[r] = "summary"
    /\ readResult' = [readResult EXCEPT ![r].window = window[readConv[r]]]
    /\ readPc' = [readPc EXCEPT ![r] = "done"]
    /\ lock' = [lock EXCEPT ![readConv[r]] = IF @ = r THEN NoOwner ELSE @]
    /\ UNCHANGED << convState, window, summary, committed,
                    memPc, memConv, memTurn, memLocal, turnCount >>
    /\ UNCHANGED << readConv, readFrom >>
    /\ UNCHANGED notReadVars

\* The pair is handed to the caller.
ReturnWindow(r) ==
    /\ readPc[r] = "done"
    /\ readPc' = [readPc EXCEPT ![r] = "idle"]
    /\ readConv' = [readConv EXCEPT ![r] = "c1"]
    /\ readFrom' = [readFrom EXCEPT ![r] = 0]
    /\ readResult' = [readResult EXCEPT ![r] = NoResult]
    /\ UNCHANGED memVars
    /\ UNCHANGED notReadVars

\* A conversation that already holds a full window: turns 1..windowSize of c1.
FullWindow == [i \in 1..windowSize |-> NewTurn(i)]

FullWindowInit ==
    /\ convState = [c \in ConvIds |-> IF c = "c1" THEN "ACTIVE" ELSE "EMPTY"]
    /\ window = [c \in ConvIds |-> IF c = "c1" THEN FullWindow ELSE << >>]
    /\ summary = [c \in ConvIds |-> << >>]
    /\ committed = [c \in ConvIds |-> IF c = "c1" THEN FullWindow ELSE << >>]
    /\ lock = [c \in ConvIds |-> NoOwner]
    /\ memPc = [p \in Workers |-> "idle"]
    /\ memConv = [p \in Workers |-> "c1"]
    /\ memTurn = [p \in Workers |-> NoTurn]
    /\ memLocal = [p \in Workers |-> EmptyState]
    /\ turnCount = windowSize

ReadNext ==
    \/ \E r \in Readers, c \in ConvIds : BeginRead(r, c)
    \/ \E r \in Readers : EnterRead(r)
    \/ \E r \in Readers : LoadSummary(r)
    \/ \E r \in Readers : LoadRecentTurns(r)
    \/ \E r \in Readers : ReturnWindow(r)

(***************************************************************************)
(* ExecutionPlan and ExecutionContext                                      *)
(***************************************************************************)

Intents == {"GREETING", "CASUAL", "TECHNICAL"}

ResponseStyles == {"CHAT", "ANALYZE", "TUTORIAL"}

\* The dataclass with its field defaults.
ExecutionPlan(i) ==
    [intent         |-> i,
     use_agent      |-> FALSE,
     agent_commands |-> << >>,
     use_rag        |-> FALSE,
     use_web        |-> FALSE,
     response_style |-> "CHAT",
     reasoning      |-> << >>]

\* The dataclass with its field defaults; rag_similarity in hundredths.
ExecutionContext ==
    [agent_data     |-> None,
     rag_data       |-> None,
     rag_similarity |-> 0,
     web_data       |-> None,
     sources        |-> << >>]

\* Python truthiness of an Optional[str]: None and "" are both false.
Truthy(opt) == opt # None /\ Get(opt) # << >>

Any(list) == \E i \in 1..Len(list) : Truthy(list[i])

has_data_NotNone(self) ==
    \E f \in {"agent_data", "rag_data", "web_data"} : self[f] # None

has_data(self) == Any(<< self.agent_data, self.rag_data, self.web_data >>)

KnowledgeHeader == << "[BASE DE CONHECIMENTO]", "\n" >>

WebHeader == << "[PESQUISA WEB]", "\n" >>

BlankLine == << "\n", "\n" >>

RECURSIVE Join(_, _)
\* sep.join(parts)
Join(sep, parts) ==
    IF parts = << >> THEN << >>
    ELSE IF Len(parts) = 1 THEN parts[1]
    ELSE parts[1] \o sep \o Join(sep, Tail(parts))

build_context_WebFirst(self) ==
    Join(BlankLine,
         (IF Truthy(self.agent_data) THEN << Get(self.agent_data) >> ELSE << >>)
         \o (IF Truthy(self.web_data)
             THEN << WebHeader \o Get(self.web_data) >> ELSE << >>)
         \o (IF Truthy(self.rag_data)
             THEN << KnowledgeHeader \o Get(self.rag_data) >> ELSE << >>))

build_context(self) ==
    LET parts ==
            (IF Truthy(self.agent_data) THEN << Get(self.agent_data) >> ELSE << >>)
            \o (IF Truthy(self.rag_data)
                THEN << KnowledgeHeader \o Get(self.rag_data) >> ELSE << >>)
            \o (IF Truthy(self.web_data)
                THEN << WebHeader \o Get(self.web_data) >> ELSE << >>)
    IN  IF parts # << >> THEN Join(BlankLine, parts) ELSE << >>

(***************************************************************************)
(* ReactOrchestrator: one request                                          *)
(***************************************************************************)

\* The planner's reply, field by field; a field may be missing.
FlagReplies == {"true", "false", "missing"}

StyleReplies == ResponseStyles \cup {"missing"}

CommandLists == {<< >>, << "uptime" >>}

PlannerReplies ==
    [use_agent : FlagReplies, agent_commands : CommandLists,
     use_rag : FlagReplies, use_web : FlagReplies, response_style : StyleReplies]

\* Strict parse: every field is taken from the reply as it stands.
parse_plan_Strict(reply) ==
    [intent         |-> "TECHNICAL",
     use_agent      |-> reply.use_agent = "true",
     agent_commands |-> reply.agent_commands,
     use_rag        |-> reply.use_rag = "true",
     use_web        |-> reply.use_web = "true",
     response_style |-> reply.response_style,
     reasoning      |-> << >>]

\* Tolerant parse: a missing flag is false, a missing style is CHAT, the
\* commands are empty unless the agent is used.
parse_plan(reply) ==
    [intent         |-> "TECHNICAL",
     use_agent      |-> reply.use_agent = "true",
     agent_commands |-> IF reply.use_agent = "true"
                        THEN reply.agent_commands ELSE << >>,
     use_rag        |-> reply.use_rag = "true",
     use_web        |-> reply.use_web = "true",
     response_style |-> IF reply.response_style \in ResponseStyles
                        THEN reply.response_style ELSE "CHAT",
     reasoning      |-> << >>]

\* Every ExecutionPlan the dataclass admits over the model's values.
ValidPlans ==
    { p \in [intent : Intents, use_agent : BOOLEAN, agent_commands : CommandLists,
              use_rag : BOOLEAN, use_web : BOOLEAN,
              response_style : ResponseStyles, reasoning : {<< >>}] :
        ~p.use_agent => p.agent_commands = << >> }

\* Any reply of the planner: each field present, missing or of a value that is
\* none of the expected ones, with or without a field the plan does not have.
RawFlags == FlagReplies \cup {"maybe"}

RawStyles == StyleReplies \cup {"VERBOSE"}

RawReplies ==
    [use_agent : RawFlags, agent_commands : CommandLists,
     use_rag : RawFlags, use_web : RawFlags, response_style : RawStyles,
     confidence : {"absent", "high"}]

Texts == {<< >>, << "x" >>, << "y", "x" >>}

\* Similarity scores in hundredths.
Scores == {10, 82}

Failures == {"error", "timeout"}

\* What a collaborator answers when it is called.
AgentAnswers ==
    [kind : {"ok"}, text : {<< >>, << "x" >>}] \cup [kind : Failures, text : {<< >>}]

RagAnswers ==
    [kind : {"ok"}, text : {<< >>, << "y", "x" >>}, score : Scores]
        \cup [kind : Failures, text : {<< >>}, score : {0}]

WebAnswers ==
    [kind : {"ok"}, text : {<< "x" >>}] \cup [kind : Failures, text : {<< >>}]

SourceAnswers == [agent : AgentAnswers, rag : RagAnswers, web : WebAnswers]

NoAnswers ==
    [agent |-> [kind |-> "error", text |-> << >>],
     rag   |-> [kind |-> "error", text |-> << >>, score |-> 0],
     web   |-> [kind |-> "error", text |-> << >>]]

NotCalled == [agent |-> "not_called", rag |-> "not_called", web |-> "not_called"]

\* What the classifier pipeline produces for a query: a label, or an internal
\* error (the model file is missing, the vectorizer rejects the text).
ClassifierOutcomes == Intents \cup {"error"}

classify_intent_Unguarded(outcome) == outcome

\* classify(text): the label of the pipeline; TECHNICAL on any internal error.
classify_intent(outcome) == IF outcome \in Intents THEN outcome ELSE "TECHNICAL"

\* The text call_llm returns for the final answer.
AnswerText == << "answer" >>

OrchIdle ==
    /\ intent = "none"
    /\ plan = None
    /\ context = ExecutionContext
    /\ assembled = None
    /\ hasData = FALSE
    /\ answers = NoAnswers
    /\ called = NotCalled
    /\ planner = "not_called"
    /\ failure = "none"
    /\ prediction = "none"
    /\ llmReplies = << >>
    /\ answer = None
    /\ steps = << >>
    /\ saved = FALSE

OrchInit == pc = "idle" /\ OrchIdle

\* A query arrives (also after the previous request ended).
Receive ==
    /\ pc \in {"idle", "done", "failed"}
    /\ pc' = "classify"
    /\ intent' = "none"
    /\ plan' = None
    /\ context' = ExecutionContext
    /\ assembled' = None
    /\ hasData' = FALSE
    /\ answers' = NoAnswers
    /\ called' = NotCalled
    /\ planner' = "not_called"
    /\ failure' = "none"
    /\ prediction' = "none"
    /\ llmReplies' = << >>
    /\ answer' = None
    /\ steps' = << >>
    /\ saved' = FALSE
    /\ UNCHANGED notOrchVars

create_plan_GreetingPlanned(o) ==
    /\ pc = "classify"
    /\ prediction' = o
    /\ intent' = classify_intent(o)
    /\ steps' = steps \o << "classify", "plan" >>
    /\ IF classify_intent(o) \in {"GREETING", "TECHNICAL"}
       THEN plan' = plan /\ pc' = "planner_call"
       ELSE plan' = None /\ pc' = "execute"
    /\ UNCHANGED << context, assembled, hasData, answers, called, planner, failure,
                    llmReplies, answer, saved >>
    /\ UNCHANGED notOrchVars

\* create_plan: intent = await classify_intent(query), then the branches.
create_plan(o) ==
    /\ pc = "classify"
    /\ prediction' = o
    /\ intent' = classify_intent(o)
    /\ steps' = steps \o << "classify", "plan" >>
    /\ IF classify_intent(o) = "GREETING"
       THEN plan' = Some([ExecutionPlan("GREETING") EXCEPT !.response_style = "CHAT"])
               /\ pc' = "execute"
       ELSE IF classify_intent(o) = "TECHNICAL"
       THEN plan' = plan /\ pc' = "planner_call"
       ELSE plan' = None /\ pc' = "execute"
    /\ UNCHANGED << context, assembled, hasData, answers, called, planner, failure,
                    llmReplies, answer, saved >>
    /\ UNCHANGED notOrchVars

\* response = await call_llm_classify(prompt); return parse_plan(response)
planner_replies(reply) ==
    /\ pc = "planner_call"
    /\ planner' = "ok"
    /\ plan' = Some(parse_plan(reply))
    /\ pc' = "execute"
    /\ UNCHANGED << intent, context, assembled, hasData, answers, called, failure,
                    prediction, llmReplies, answer, steps, saved >>
    /\ UNCHANGED notOrchVars

\* The planner call fails: nothing in create_plan catches the error.
planner_fails(kind) ==
    /\ pc = "planner_call"
    /\ planner' = kind
    /\ failure' = "planner"
    /\ pc' = "failed"
    /\ UNCHANGED << intent, plan, context, assembled, hasData, answers, called,
                    prediction, llmReplies, answer, steps, saved >>
    /\ UNCHANGED notOrchVars

\* Retrieval is called whatever the plan says.
AfterAgent_AlwaysRag(p) == "rag_call"

\* The step of execute_plan after the agent part.
AfterAgent(p) == IF p.use_rag THEN "rag_call" ELSE "generate"

\* execute_plan: context = ExecutionContext(); if plan.use_agent: ...
execute_plan(env) ==
    /\ pc = "execute"
    /\ context' = ExecutionContext
    /\ answers' = env
    /\ steps' = Append(steps, "execute")
    /\ IF plan = None
       THEN pc' = "failed" /\ failure' = "plan_is_none"
       ELSE /\ pc' = IF Get(plan).use_agent THEN "agent_call" ELSE AfterAgent(Get(plan))
            /\ failure' = failure
    /\ UNCHANGED << intent, plan, assembled, hasData, called, planner,
                    prediction, llmReplies, answer, saved >>
    /\ UNCHANGED notOrchVars

\* context.agent_data = await execute_agent_commands(plan.agent_commands)
agent_returns ==
    /\ pc = "agent_call"
    /\ called' = [called EXCEPT !.agent = answers.agent.kind]
    /\ IF answers.agent.kind = "ok"
       THEN /\ context' = [context EXCEPT !.agent_data = Some(answers.agent.text)]
            /\ pc' = AfterAgent(Get(plan))
            /\ failure' = failure
       ELSE /\ context' = context
            /\ pc' = "failed"
            /\ failure' = "agent"
    /\ UNCHANGED << intent, plan, assembled, hasData, answers, planner,
                    prediction, llmReplies, answer, steps, saved >>
    /\ UNCHANGED notOrchVars

\* context.rag_data = await search_rag(query)
rag_returns ==
    /\ pc = "rag_call"
    /\ called' = [called EXCEPT !.rag = answers.rag.kind]
    /\ IF answers.rag.kind = "ok"
       THEN /\ context' = [context EXCEPT !.rag_data = Some(answers.rag.text)]
            /\ pc' = "generate"
            /\ failure' = failure
       ELSE /\ context' = context
            /\ pc' = "failed"
            /\ failure' = "rag"
    /\ UNCHANGED << intent, plan, assembled, hasData, answers, planner,
                    prediction, llmReplies, answer, steps, saved >>
    /\ UNCHANGED notOrchVars

\* generate_response: build_response_prompt(query, context.build_context()),
\* then return await call_llm(prompt).
generate_response(llm) ==
    /\ pc = "generate"
    /\ assembled' = Some(build_context(context))
    /\ hasData' = has_data(context)
    /\ steps' = steps \o << "assemble", "generate" >>
    /\ llmReplies' = Append(llmReplies, llm)
    /\ IF llm = "ok"
       THEN pc' = "persist" /\ failure' = failure /\ answer' = Some(AnswerText)
       ELSE pc' = "failed" /\ failure' = "generation" /\ answer' = answer
    /\ UNCHANGED << intent, plan, context, answers, called, planner,
                    prediction, saved >>
    /\ UNCHANGED notOrchVars

CanPersist_BeforeAnswer == pc \in {"generate", "persist"}

\* The turn is saved once generate_response has returned the answer.
CanPersist == pc = "persist"

\* "Orchestrator busca historico e salva apos resposta": the save of the
\* message and the answer; a failed save is logged and the answer returned.
persist(outcome) ==
    /\ CanPersist
    /\ steps' = Append(steps, "persist")
    /\ saved' = (outcome = "ok")
    /\ pc' = "done"
    /\ UNCHANGED << intent, plan, context, assembled, hasData, answers, called,
                    planner, failure, prediction, llmReplies, answer >>
    /\ UNCHANGED notOrchVars

OrchNext ==
    \/ Receive
    \/ \E o \in ClassifierOutcomes : create_plan(o)
    \/ \E reply \in PlannerReplies : planner_replies(reply)
    \/ \E kind \in Failures : planner_fails(kind)
    \/ \E env \in SourceAnswers : execute_plan(env)
    \/ agent_returns
    \/ rag_returns
    \/ \E llm \in {"ok"} \cup Failures : generate_response(llm)
    \/ \E outcome \in {"ok"} \cup Failures : persist(outcome)

(***************************************************************************)
(* ExecutionContext.has_data / build_context on any context                *)
(***************************************************************************)

OptionalTexts == {None} \cup {Some(t) : t \in Texts}

Contexts ==
    [agent_data : OptionalTexts, rag_data : OptionalTexts,
     rag_similarity : Scores, web_data : OptionalTexts, sources : {<< >>}]

CtxInit ==
    /\ pc = "ctx_ready"
    /\ context \in Contexts
    /\ intent = "none"
    /\ plan = None
    /\ assembled = None
    /\ hasData = FALSE
    /\ answers = NoAnswers
    /\ called = NotCalled
    /\ planner = "not_called"
    /\ failure = "none"
    /\ prediction = "none"
    /\ llmReplies = << >>
    /\ answer = None
    /\ steps = << >>
    /\ saved = FALSE

Assemble ==
    /\ pc = "ctx_ready"
    /\ hasData' = has_data(context)
    /\ assembled' = Some(build_context(context))
    /\ pc' = "ctx_done"
    /\ UNCHANGED << intent, plan, context, answers, called, planner, failure,
                    prediction, llmReplies, answer, steps, saved >>
    /\ UNCHANGED notOrchVars

(***************************************************************************)
(* parse_plan on any reply of the planner                                  *)
(***************************************************************************)

NoReply == plannerReply = None

ReplyInit ==
    /\ pc = "parse_ready"
    /\ plannerReply \in {Some(r) : r \in RawReplies}
    /\ OrchIdle

Parse ==
    /\ pc = "parse_ready"
    /\ plan' = Some(parse_plan(Get(plannerReply)))
    /\ pc' = "parsed"
    /\ UNCHANGED << intent, context, assembled, hasData, answers, called, planner,
                    failure, prediction, llmReplies, answer, steps, saved >>
    /\ UNCHANGED notOrchVars

(***************************************************************************)
(* The chat page: handleOutgoingMessage, generateBotResponse and            *)
(* ConversationService.sendChatMessage                                      *)
(***************************************************************************)

\* Bound of the model: outgoing messages accepted by the page.
MaxMessages == 2

\* What the user typed, after trim().
Inputs == {"", "hi"}

\* How an awaited fetch ends when it ends: response.ok, or a network error
\* or a response that is not ok.
Outcomes == {"ok", "error"}

\* The requests sendChatMessage and generateBotResponse await.
Awaiting == {"create", "create_reload", "add_user", "gateway", "add_assistant",
             "history"}

\* No chat request under way, no conversation chosen.
NoChat ==
    /\ isWaitingForResponse = FALSE
    /\ currentConversationId = "null"
    /\ chatPc = "idle"
    /\ reqConv = "null"
    /\ conversations = {}
    /\ messages = [c \in ConvIds |-> << >>]
    /\ botResponse = None
    /\ shown = "none"
    /\ exchanges = 0
    /\ hung = FALSE
    /\ requests = << >>

ChatIdle == currentUser = "u1" /\ NoChat

handleOutgoingMessage_NoGuard(text) ==
    /\ exchanges < MaxMessages
    /\ IF text = ""
       THEN UNCHANGED << isWaitingForResponse, chatPc, botResponse, shown, exchanges,
                         requests >>
       ELSE /\ isWaitingForResponse' = TRUE
            /\ chatPc' = "timer"
            /\ botResponse' = None
            /\ shown' = "none"
            /\ exchanges' = exchanges + 1
            /\ requests' = << >>
    /\ UNCHANGED << currentConversationId, currentUser, reqConv, conversations,
                    messages, hung >>
    /\ UNCHANGED notChatVars

\* handleOutgoingMessage: returns when a request is being handled or the
\* input is empty; else sets the flag and schedules generateBotResponse.
handleOutgoingMessage(text) ==
    /\ exchanges < MaxMessages
    /\ IF isWaitingForResponse \/ text = ""
       THEN UNCHANGED << isWaitingForResponse, chatPc, botResponse, shown, exchanges,
                         requests >>
       ELSE /\ isWaitingForResponse' = TRUE
            /\ chatPc' = "timer"
            /\ botResponse' = None
            /\ shown' = "none"
            /\ exchanges' = exchanges + 1
            /\ requests' = << >>
    /\ UNCHANGED << currentConversationId, currentUser, reqConv, conversations,
                    messages, hung >>
    /\ UNCHANGED notChatVars

\* catch: the error text replaces the bot message; finally: the flag is reset.
ShowError ==
    /\ shown' = "error"
    /\ isWaitingForResponse' = FALSE
    /\ chatPc' = "idle"

\* A fetch of sendChatMessage as it is sent: the conversation id it names is
\* this.currentConversationId at that moment; its only header is Content-Type.
Request(op) ==
    [op            |-> op,
     conv          |-> currentConversationId,
     n             |-> exchanges,
     authorization |-> "none",
     result        |-> "pending"]

\* The awaited request was answered.
Answered(result) == [requests EXCEPT ![Len(requests)].result = result]

\* The setTimeout callback: the thinking indicator, then generateBotResponse
\* up to the first await of sendChatMessage.
generateBotResponse ==
    /\ chatPc = "timer"
    /\ IF currentUser = "null"
       THEN ShowError /\ reqConv' = reqConv /\ requests' = requests
       ELSE /\ shown' = "thinking"
            /\ isWaitingForResponse' = isWaitingForResponse
            /\ IF currentConversationId = "null"
               THEN /\ chatPc' = "create"
                    /\ reqConv' = "null"
                    /\ requests' = << Request("create") >>
               ELSE /\ chatPc' = "add_user"
                    /\ reqConv' = currentConversationId
                    /\ requests' = << Request("add_user") >>
    /\ UNCHANGED << currentConversationId, currentUser, conversations, messages,
                    botResponse, exchanges, hung >>
    /\ UNCHANGED notChatVars

\* createConversation: POST /conversations answers.
createConversation_returns(outcome, c) ==
    /\ chatPc = "create"
    /\ ~hung
    /\ outcome = "ok" => c \notin conversations
    /\ requests' = Answered(outcome)
    /\ IF outcome = "ok"
       THEN /\ conversations' = conversations \cup {c}
            /\ currentConversationId' = c
            /\ chatPc' = "create_reload"
            /\ UNCHANGED << shown, isWaitingForResponse >>
       ELSE /\ ShowError
            /\ UNCHANGED << conversations, currentConversationId >>
    /\ UNCHANGED << currentUser, reqConv, messages, botResponse, exchanges, hung >>
    /\ UNCHANGED notChatVars

\* createConversation: loadUserConversations answers (it catches its own
\* errors); sendChatMessage goes on to addMessage(currentConversationId, 'user').
loadUserConversations_returns ==
    /\ chatPc = "create_reload"
    /\ ~hung
    /\ chatPc' = "add_user"
    /\ reqConv' = currentConversationId
    /\ requests' = Append(requests, Request("add_user"))
    /\ UNCHANGED << isWaitingForResponse, currentConversationId, currentUser,
                    conversations, messages, botResponse, shown, exchanges, hung >>
    /\ UNCHANGED notChatVars

\* The conversation service stores a message of conversation c, sent by the
\* client's addMessage.
Stored(c, role) ==
    [messages EXCEPT
        ![c] = Append(@, [role |-> role, n |-> exchanges, by |-> "client"])]

\* POST /conversations/{id}/messages succeeds for an existing conversation.
Accepts(outcome) == outcome = "ok" /\ reqConv \in conversations

\* addMessage(..., 'user', userMessage) answers; then the gateway is called
\* with conversation_id: this.currentConversationId.
addMessage_user_returns(outcome) ==
    /\ chatPc = "add_user"
    /\ ~hung
    /\ IF Accepts(outcome)
       THEN /\ messages' = Stored(reqConv, "user")
            /\ chatPc' = "gateway"
            /\ reqConv' = currentConversationId
            /\ requests' = Append(Answered("ok"), Request("gateway"))
            /\ UNCHANGED << shown, isWaitingForResponse >>
       ELSE /\ ShowError
            /\ requests' = Answered("error")
            /\ UNCHANGED << messages, reqConv >>
    /\ UNCHANGED << currentConversationId, currentUser, conversations,
                    botResponse, exchanges, hung >>
    /\ UNCHANGED notChatVars

\* "POST /conversations/{id} (salva mensagem + resposta)": the orchestrator's
\* own save of the exchange in the conversation the chat request names.
SavedByOrchestrator(c, save) ==
    IF save = "ok" /\ c \in conversations
    THEN [messages EXCEPT
             ![c] = @ \o << [role |-> "user", n |-> exchanges, by |-> "orchestrator"],
                            [role |-> "assistant", n |-> exchanges,
                             by |-> "orchestrator"] >>]
    ELSE messages

\* No 'if (!response.ok) throw': the reply is saved whatever the gateway said.
gateway_returns_IgnoresStatus(outcome, save) ==
    /\ chatPc = "gateway"
    /\ ~hung
    /\ botResponse' = IF outcome = "ok" THEN Some(exchanges) ELSE botResponse
    /\ messages' = IF outcome = "ok" THEN SavedByOrchestrator(reqConv, save) ELSE messages
    /\ chatPc' = "add_assistant"
    /\ reqConv' = currentConversationId
    /\ requests' = Append(Answered(outcome), Request("add_assistant"))
    /\ UNCHANGED << shown, isWaitingForResponse >>
    /\ UNCHANGED << currentConversationId, currentUser, conversations,
                    exchanges, hung >>
    /\ UNCHANGED notChatVars

\* POST /api/v1/chat answers (the orchestrator has saved the exchange, or its
\* save failed); then addMessage(currentConversationId, 'assistant',
\* botResponse.response) is called.
gateway_returns(outcome, save) ==
    /\ chatPc = "gateway"
    /\ ~hung
    /\ IF outcome = "ok"
       THEN /\ botResponse' = Some(exchanges)
            /\ messages' = SavedByOrchestrator(reqConv, save)
            /\ chatPc' = "add_assistant"
            /\ reqConv' = currentConversationId
            /\ requests' = Append(Answered("ok"), Request("add_assistant"))
            /\ UNCHANGED << shown, isWaitingForResponse >>
       ELSE /\ ShowError
            /\ requests' = Answered("error")
            /\ UNCHANGED << botResponse, reqConv, messages >>
    /\ UNCHANGED << currentConversationId, currentUser, conversations,
                    exchanges, hung >>
    /\ UNCHANGED notChatVars

\* addMessage(..., 'assistant', ...) answers; sendChatMessage returns
\* botResponse, generateBotResponse shows it and reloads the history.
addMessage_assistant_returns(outcome) ==
    /\ chatPc = "add_assistant"
    /\ ~hung
    /\ IF Accepts(outcome)
       THEN /\ messages' = Stored(reqConv, "assistant")
            /\ shown' = "answer"
            /\ chatPc' = "history"
            /\ requests' = Answered("ok")
            /\ UNCHANGED isWaitingForResponse
       ELSE /\ ShowError
            /\ requests' = Answered("error")
            /\ UNCHANGED messages
    /\ UNCHANGED << currentConversationId, currentUser, reqConv, conversations,
                    botResponse, exchanges, hung >>
    /\ UNCHANGED notChatVars

\* await loadConversationHistory() ends (it catches its own errors), then
\* finally: isWaitingForResponse = false.
loadConversationHistory_returns ==
    /\ chatPc = "history"
    /\ ~hung
    /\ isWaitingForResponse' = FALSE
    /\ chatPc' = "idle"
    /\ UNCHANGED << currentConversationId, currentUser, reqConv, conversations,
                    messages, botResponse, shown, exchanges, hung, requests >>
    /\ UNCHANGED notChatVars

\* The service being awaited never answers: fetch is called without a
\* timeout or an AbortController, so its promise stays pending.
never_answers ==
    /\ chatPc \in Awaiting
    /\ ~hung
    /\ hung' = TRUE
    /\ UNCHANGED << isWaitingForResponse, currentConversationId, currentUser,
                    chatPc, reqConv, conversations, messages, botResponse, shown,
                    exchanges, requests >>
    /\ UNCHANGED notChatVars

\* A click on a conversation of the list: setCurrentConversation(conv.id).
loadConversation(c) ==
    /\ c \in conversations
    /\ currentConversationId' = c
    /\ UNCHANGED << isWaitingForResponse, currentUser, chatPc, reqConv,
                    conversations, messages, botResponse, shown, exchanges, hung,
                    requests >>
    /\ UNCHANGED notChatVars

\* The plus button: setCurrentConversation(null) when a user is logged in.
createNewConversation ==
    /\ currentConversationId' = IF currentUser = "null"
                                THEN currentConversationId ELSE "null"
    /\ UNCHANGED << isWaitingForResponse, currentUser, chatPc, reqConv,
                    conversations, messages, botResponse, shown, exchanges, hung,
                    requests >>
    /\ UNCHANGED notChatVars

(***************************************************************************)
(* AuthService: the session in memory and in localStorage, login, logout   *)
(***************************************************************************)

Users == {"u1", "u2"}

Tokens == {"t1", "t2"}

\* JSON.stringify(user): the string kept under 'lanne_user'.
JSON_stringify(user) == << "json", user >>

\* JSON.parse(savedUser)
JSON_parse(str) == str[2]

loginVars == << loginPc, loginUser, authLog, userData, loginResult >>

logoutVars == << logoutPc, logoutAnswer, logoutResult >>

\* loadSession: both entries are read and, when both are there, taken over.
loadSession ==
    /\ IF lanne_user # None /\ lanne_token # None
       THEN /\ currentUser' = JSON_parse(Get(lanne_user))
            /\ token' = Get(lanne_token)
       ELSE UNCHANGED << currentUser, token >>
    /\ UNCHANGED << lanne_user, lanne_token >>

\* constructor: currentUser = null, token = null, then loadSession().
AuthService ==
    /\ IF lanne_user # None /\ lanne_token # None
       THEN /\ currentUser' = JSON_parse(Get(lanne_user))
            /\ token' = Get(lanne_token)
       ELSE /\ currentUser' = "null"
            /\ token' = "null"
    /\ UNCHANGED << lanne_user, lanne_token >>

saveSession_MemoryOnly(user, tok) ==
    /\ UNCHANGED << lanne_user, lanne_token >>
    /\ currentUser' = user
    /\ token' = tok

\* saveSession(user, token)
saveSession(user, tok) ==
    /\ lanne_user' = Some(JSON_stringify(user))
    /\ lanne_token' = Some(tok)
    /\ currentUser' = user
    /\ token' = tok

\* clearSession()
clearSession ==
    /\ lanne_user' = None
    /\ lanne_token' = None
    /\ currentUser' = "null"
    /\ token' = "null"

\* isAuthenticated()
isAuthenticated == currentUser # "null" /\ token # "null"

\* How a fetch of login ends: response.ok, status 404, another status that is
\* not ok, or a rejected promise.
LoginAnswers == {"ok", "404", "error", "network"}

\* How the /logout and /validate fetches end.
Answers == {"ok", "error", "network"}

Call(url) == [url |-> url, status |-> "pending"]

Replied(status) == [authLog EXCEPT ![Len(authLog)].status = status]

\* login(username), up to the first await: POST /login.
login(username) ==
    /\ page = "index.html"
    /\ loginPc = "idle"
    /\ loginPc' = "login"
    /\ loginUser' = username
    /\ authLog' = << Call("/login") >>
    /\ userData' = None
    /\ loginResult' = "pending"
    /\ UNCHANGED sessionVars
    /\ UNCHANGED << logoutVars, pageVars, notAuthVars >>

\* The session is saved from the response: saveSession({username, user_id,
\* admin}, userData.token); return userData.
LoggedIn(tok) ==
    /\ userData' = Some([user |-> loginUser, token |-> tok])
    /\ saveSession(loginUser, tok)
    /\ loginResult' = "returned"
    /\ loginPc' = "idle"

\* throw: nothing of the session is touched.
LoginThrows ==
    /\ loginResult' = "thrown"
    /\ loginPc' = "idle"
    /\ UNCHANGED userData
    /\ UNCHANGED sessionVars

login_returns_RegistersOnError(reply, tok) ==
    /\ loginPc = "login"
    /\ IF reply \in {"404", "error"}
       THEN /\ loginPc' = "register"
            /\ authLog' = Append(Replied(reply), Call("/register"))
            /\ UNCHANGED << userData, loginResult >>
            /\ UNCHANGED sessionVars
       ELSE /\ authLog' = Replied(reply)
            /\ IF reply = "ok" THEN LoggedIn(tok) ELSE LoginThrows
    /\ UNCHANGED loginUser
    /\ UNCHANGED << logoutVars, pageVars, notAuthVars >>

login_returns_ClearsOnFailure(reply, tok) ==
    /\ loginPc = "login"
    /\ IF reply = "404"
       THEN /\ loginPc' = "register"
            /\ authLog' = Append(Replied(reply), Call("/register"))
            /\ UNCHANGED << userData, loginResult >>
            /\ UNCHANGED sessionVars
       ELSE /\ authLog' = Replied(reply)
            /\ IF reply = "ok"
               THEN LoggedIn(tok)
               ELSE /\ loginResult' = "thrown"
                    /\ loginPc' = "idle"
                    /\ UNCHANGED userData
                    /\ clearSession
    /\ UNCHANGED loginUser
    /\ UNCHANGED << logoutVars, pageVars, notAuthVars >>

\* POST /login answers: on 404 POST /register is sent; else the response is
\* either OK (session saved) or an error is thrown.
login_returns(reply, tok) ==
    /\ loginPc = "login"
    /\ IF reply = "404"
       THEN /\ loginPc' = "register"
            /\ authLog' = Append(Replied(reply), Call("/register"))
            /\ UNCHANGED << userData, loginResult >>
            /\ UNCHANGED sessionVars
       ELSE /\ authLog' = Replied(reply)
            /\ IF reply = "ok" THEN LoggedIn(tok) ELSE LoginThrows
    /\ UNCHANGED loginUser
    /\ UNCHANGED << logoutVars, pageVars, notAuthVars >>

\* POST /register answers.
register_returns(reply, tok) ==
    /\ loginPc = "register"
    /\ authLog' = Replied(reply)
    /\ IF reply = "ok" THEN LoggedIn(tok) ELSE LoginThrows
    /\ UNCHANGED loginUser
    /\ UNCHANGED << logoutVars, pageVars, notAuthVars >>

\* logout(), up to its await: with a token POST /logout is sent, without one
\* the finally block runs at once.
logout ==
    /\ logoutPc = "idle"
    /\ IF token # "null"
       THEN /\ logoutPc' = "logout"
            /\ logoutAnswer' = "pending"
            /\ logoutResult' = "pending"
            /\ UNCHANGED sessionVars
       ELSE /\ logoutPc' = "idle"
            /\ logoutAnswer' = "no_token"
            /\ logoutResult' = "returned"
            /\ clearSession
    /\ UNCHANGED << loginVars, pageVars, notAuthVars >>

logout_returns_NoFinally(reply) ==
    /\ logoutPc = "logout"
    /\ logoutPc' = "idle"
    /\ logoutAnswer' = reply
    /\ IF reply = "network"
       THEN logoutResult' = "thrown" /\ UNCHANGED sessionVars
       ELSE logoutResult' = "returned" /\ clearSession
    /\ UNCHANGED << loginVars, pageVars, notAuthVars >>

\* POST /logout answers or fails: catch logs, finally clearSession().
logout_returns(reply) ==
    /\ logoutPc = "logout"
    /\ logoutPc' = "idle"
    /\ logoutAnswer' = reply
    /\ logoutResult' = "returned"
    /\ clearSession
    /\ UNCHANGED << loginVars, pageVars, notAuthVars >>

\* loadSession() called on the instance.
loadSession_called ==
    /\ loadSession
    /\ UNCHANGED << loginVars, logoutVars, pageVars, notAuthVars >>

(***************************************************************************)
(* chat.html: the two DOMContentLoaded handlers                            *)
(***************************************************************************)

Pages == {"index.html", "chat.html"}

\* A page is opened: its scripts run, authService = new AuthService(); what
\* the previous page awaited is gone.
PageLoad(p) ==
    /\ page' = p
    /\ location' = p
    /\ initPc' = IF p = "chat.html" THEN "start" ELSE "none"
    /\ guardPc' = IF p = "chat.html" THEN "start" ELSE "none"
    /\ historyLoaded' = FALSE
    /\ validateHung' = FALSE
    /\ AuthService
    /\ loginPc' = "idle"
    /\ loginUser' = loginUser
    /\ authLog' = << >>
    /\ userData' = None
    /\ loginResult' = "none"
    /\ logoutPc' = "idle"
    /\ logoutAnswer' = "none"
    /\ logoutResult' = "none"
    /\ UNCHANGED notAuthVars

\* document DOMContentLoaded: redirect when not authenticated, else set the
\* page up and await loadConversationHistory().
init_DOMContentLoaded ==
    /\ initPc = "start"
    /\ IF ~isAuthenticated
       THEN /\ location' = "index.html"
            /\ initPc' = "redirected"
            /\ UNCHANGED historyLoaded
       ELSE /\ initPc' = "history"
            /\ historyLoaded' = TRUE
            /\ UNCHANGED location
    /\ UNCHANGED << page, guardPc, validateHung >>
    /\ UNCHANGED << authVars, chatVars >>
    /\ UNCHANGED << memVars, orchVars, readVars, parseVars, cancelVars, uiVars >>

\* loadConversationHistory() ended: the send, Enter and plus listeners are
\* attached.
init_history_returns ==
    /\ initPc = "history"
    /\ initPc' = "ready"
    /\ UNCHANGED << page, location, guardPc, historyLoaded, validateHung >>
    /\ UNCHANGED << authVars, chatVars >>
    /\ UNCHANGED << memVars, orchVars, readVars, parseVars, cancelVars, uiVars >>

\* window DOMContentLoaded (after the document's listener): redirect when not
\* authenticated, else await validateToken().
guard_DOMContentLoaded ==
    /\ guardPc = "start"
    /\ initPc # "start"
    /\ IF ~isAuthenticated
       THEN /\ location' = "index.html"
            /\ guardPc' = "redirected"
       ELSE /\ guardPc' = "validating"
            /\ UNCHANGED location
    /\ UNCHANGED << page, initPc, historyLoaded, validateHung >>
    /\ UNCHANGED << authVars, chatVars >>
    /\ UNCHANGED << memVars, orchVars, readVars, parseVars, cancelVars, uiVars >>

\* POST /validate answers: validateToken returns response.ok, false on an
\* error; when false the guard clears the session and redirects.
validateToken_returns(reply) ==
    /\ guardPc = "validating"
    /\ ~validateHung
    /\ IF reply = "ok"
       THEN /\ guardPc' = "passed"
            /\ UNCHANGED sessionVars
            /\ UNCHANGED location
       ELSE /\ guardPc' = "rejected"
            /\ clearSession
            /\ location' = "index.html"
    /\ UNCHANGED << page, initPc, historyLoaded, validateHung >>
    /\ UNCHANGED << loginVars, logoutVars, notAuthVars >>

\* The auth service never answers POST /validate: the fetch has no timeout.
validate_never_answers ==
    /\ guardPc = "validating"
    /\ ~validateHung
    /\ validateHung' = TRUE
    /\ UNCHANGED << page, location, initPc, guardPc, historyLoaded >>
    /\ UNCHANGED << authVars, chatVars >>
    /\ UNCHANGED << memVars, orchVars, readVars, parseVars, cancelVars, uiVars >>

\* No login or logout is under way.
AuthIdle ==
    /\ loginPc = "idle"
    /\ loginUser = "u1"
    /\ authLog = << >>
    /\ userData = None
    /\ loginResult = "none"
    /\ logoutPc = "idle"
    /\ logoutAnswer = "none"
    /\ logoutResult = "none"

\* The session of user u1, as saveSession left it.
SessionOpen ==
    /\ token = "t1"
    /\ lanne_user = Some(JSON_stringify("u1"))
    /\ lanne_token = Some("t1")
    /\ AuthIdle

\* chat.html is open with its listeners attached, the guard awaiting
\* validateToken().
PageOpen ==
    /\ page = "chat.html"
    /\ location = "chat.html"
    /\ initPc = "ready"
    /\ guardPc = "validating"
    /\ historyLoaded = TRUE
    /\ validateHung = FALSE

\* index.html is opened in a browser that holds no session or the session of
\* an earlier visit.
AuthFresh ==
    /\ page = "index.html"
    /\ location = "index.html"
    /\ initPc = "none"
    /\ guardPc = "none"
    /\ historyLoaded = FALSE
    /\ validateHung = FALSE
    /\ \/ lanne_user = None /\ lanne_token = None
            /\ currentUser = "null" /\ token = "null"
       \/ lanne_user = Some(JSON_stringify("u1")) /\ lanne_token = Some("t1")
            /\ currentUser = "u1" /\ token = "t1"
    /\ AuthIdle

AuthNext ==
    \/ \E username \in Users : login(username)
    \/ \E reply \in LoginAnswers, tok \in Tokens : login_returns(reply, tok)
    \/ \E reply \in LoginAnswers, tok \in Tokens : register_returns(reply, tok)
    \/ logout
    \/ \E reply \in Answers : logout_returns(reply)
    \/ loadSession_called
    \/ \E p \in Pages : PageLoad(p)
    \/ init_DOMContentLoaded
    \/ init_history_returns
    \/ guard_DOMContentLoaded
    \/ \E reply \in Answers : validateToken_returns(reply)
    \/ validate_never_answers

\* The steps the page takes by itself: timers fire and answered requests
\* resume their continuations.
ChatSteps ==
    \/ generateBotResponse
    \/ \E outcome \in Outcomes, c \in ConvIds : createConversation_returns(outcome, c)
    \/ loadUserConversations_returns
    \/ \E outcome \in Outcomes : addMessage_user_returns(outcome)
    \/ \E outcome \in Outcomes, save \in Outcomes : gateway_returns(outcome, save)
    \/ \E outcome \in Outcomes : addMessage_assistant_returns(outcome)
    \/ loadConversationHistory_returns

\* What the user and the services do.
ChatEvents ==
    \/ \E text \in Inputs : handleOutgoingMessage(text)
    \/ never_answers
    \/ \E c \in ConvIds : loadConversation(c)
    \/ createNewConversation
    \/ \E reply \in Answers : validateToken_returns(reply)

(***************************************************************************)
(* ServiceChecker: the check of the backend services on page load          *)
(***************************************************************************)

REQUIRED_SERVICES == << "Auth Service", "Conversation Service", "Gateway Service" >>

\* How the GET of a service ends: response.ok, a response that is not ok,
\* a rejected fetch, or the abort after the 2 s timeout.
ServiceOutcomes == {"ok", "not_ok", "rejected", "timeout"}

checkService_TimeoutIsOk(outcome) == outcome \in {"ok", "timeout"}

\* checkService(service): response.ok, false from the catch (a rejected or
\* aborted fetch).
checkService(outcome) == outcome = "ok"

\* One pass of the loop of checkAllServices: results.push({...service,
\* available}); answered records what the service did.
Checked(results, outcome) ==
    Append(results, [name |-> REQUIRED_SERVICES[Len(results) + 1],
                     answered |-> outcome,
                     available |-> checkService(outcome)])

\* checkAllServices has gone through REQUIRED_SERVICES.
FullCheck(results) == Len(results) = Len(REQUIRED_SERVICES)

\* servicesStatus.filter(s => !s.available), the names of the services.
Unavailable(results) ==
    {results[i].name : i \in {j \in 1..Len(results) : ~results[j].available}}

\* A page that was just loaded: new ServiceChecker(), no modal.
CheckerFresh ==
    /\ servicesOk = FALSE
    /\ initializePc = "start"
    /\ servicesStatus = << >>
    /\ modal = None
    /\ retryPc = "idle"
    /\ newStatus = << >>
    /\ alerted = None

\* window DOMContentLoaded on index.html or chat.html: initialize() starts
\* checkAllServices.
checker_DOMContentLoaded ==
    /\ initializePc = "start"
    /\ initializePc' = "checking"
    /\ servicesStatus' = << >>
    /\ UNCHANGED << servicesOk, modal, retryPc, newStatus, alerted >>
    /\ UNCHANGED << wizardVars, authVars, notUiVars >>

\* showServicesDownModal(servicesStatus)
showServicesDownModal(results) ==
    IF Unavailable(results) = {}
    THEN servicesOk' = TRUE /\ UNCHANGED modal
    ELSE modal' = Some(Unavailable(results)) /\ UNCHANGED servicesOk

\* initialize: a service of the loop has answered or timed out; after the
\* last one initialize finishes.
initialize_checked(outcome) ==
    /\ initializePc = "checking"
    /\ ~FullCheck(servicesStatus)
    /\ servicesStatus' = Checked(servicesStatus, outcome)
    /\ IF FullCheck(servicesStatus')
       THEN /\ initializePc' = "done"
            /\ IF \A i \in 1..Len(servicesStatus') : servicesStatus'[i].available
               THEN servicesOk' = TRUE /\ UNCHANGED modal
               ELSE showServicesDownModal(servicesStatus')
       ELSE UNCHANGED << initializePc, servicesOk, modal >>
    /\ UNCHANGED << retryPc, newStatus, alerted >>
    /\ UNCHANGED << wizardVars, authVars, notUiVars >>

\* click on #retry-btn: checkAllServices starts again.
retry_click ==
    /\ modal # None
    /\ retryPc = "idle"
    /\ retryPc' = "checking"
    /\ newStatus' = << >>
    /\ UNCHANGED << servicesOk, initializePc, servicesStatus, modal, alerted >>
    /\ UNCHANGED << wizardVars, authVars, notUiVars >>

\* retry handler: a service of the loop has answered or timed out; after the
\* last one the modal is removed and the page reloaded, or the services still
\* down are alerted (the handler throws before the alert when the modal, and
\* with it #retry-btn, is gone).
retry_checked(outcome) ==
    /\ retryPc = "checking"
    /\ ~FullCheck(newStatus)
    /\ newStatus' = Checked(newStatus, outcome)
    /\ IF FullCheck(newStatus')
       THEN IF Unavailable(newStatus') = {}
            THEN /\ modal' = None
                 /\ servicesOk' = TRUE
                 /\ retryPc' = "reloading"
                 /\ UNCHANGED alerted
            ELSE /\ retryPc' = "idle"
                 /\ alerted' = IF modal = None THEN alerted
                               ELSE Some(Unavailable(newStatus'))
                 /\ UNCHANGED << modal, servicesOk >>
       ELSE UNCHANGED << retryPc, modal, servicesOk, alerted >>
    /\ UNCHANGED << initializePc, servicesStatus >>
    /\ UNCHANGED << wizardVars, authVars, notUiVars >>

\* click on #ignore-btn: modal.remove().
ignore_click ==
    /\ modal # None
    /\ modal' = None
    /\ UNCHANGED << servicesOk, initializePc, servicesStatus, retryPc, newStatus,
                    alerted >>
    /\ UNCHANGED << wizardVars, authVars, notUiVars >>

\* window.location.reload() of the retry handler: the page and its
\* ServiceChecker start anew.
checker_reload ==
    /\ retryPc = "reloading"
    /\ servicesOk' = FALSE
    /\ initializePc' = "start"
    /\ servicesStatus' = << >>
    /\ modal' = None
    /\ retryPc' = "idle"
    /\ newStatus' = << >>
    /\ alerted' = None
    /\ UNCHANGED << wizardVars, authVars, notUiVars >>

CheckerNext ==
    \/ checker_DOMContentLoaded
    \/ \E outcome \in ServiceOutcomes : initialize_checked(outcome)
    \/ retry_click
    \/ \E outcome \in ServiceOutcomes : retry_checked(outcome)
    \/ ignore_click
    \/ checker_reload

\* The page after a check in which every service answered OK.
CheckerOk ==
    /\ servicesOk = TRUE
    /\ initializePc = "done"
    /\ servicesStatus = Checked(Checked(Checked(<< >>, "ok"), "ok"), "ok")
    /\ modal = None
    /\ retryPc = "idle"
    /\ newStatus = << >>
    /\ alerted = None

(***************************************************************************)
(* The login wizard of index.html                                          *)
(***************************************************************************)

\* Texts are sequences of characters.
localhost == << "l", "o", "c", "a", "l", "h", "o", "s", "t" >>

\* What the user may have typed in #username-input when handleNext reads it.
UsernameInputs ==
    { << >>, << " " >>, << "a", "b" >>, << " ", "a", "b", " " >>,
      << "a", "b", "c" >>, << " ", "a", "b", "c", " " >> }

\* What the user may have typed in #server-ip-input or #agent-ip-input.
IpInputs == { << >>, << " ", " " >>, << "1" >>, << " ", "1", " " >> }

RECURSIVE trimStart(_)
trimStart(str) ==
    IF str # << >> /\ Head(str) = " " THEN trimStart(Tail(str)) ELSE str

RECURSIVE trimEnd(_)
trimEnd(str) ==
    IF str # << >> /\ str[Len(str)] = " "
    THEN trimEnd(SubSeq(str, 1, Len(str) - 1))
    ELSE str

\* String.prototype.trim()
trim(str) == trimEnd(trimStart(str))

\* localStorage.getItem(key) || ''
getItemOrEmpty(entry) == IF entry = None THEN << >> ELSE Get(entry)

\* The script has just run: let wizardStep = 1, let wizardData = {...}.
WizardFresh ==
    /\ wizardStep = 1
    /\ wizardData = [username |-> << >>,
                     serverType |-> "localhost",
                     serverIP |-> getItemOrEmpty(lanne_server_ip),
                     agentType |-> "localhost",
                     agentIP |-> getItemOrEmpty(lanne_agent_ip)]
    /\ rendered = 0
    /\ statusMessage = "none"
    /\ connectPc = "idle"
    /\ connectDisabled = FALSE
    /\ reloadPending = FALSE

\* The wizard's page is the open document.
WizardOpen == connectPc # "left"

\* renderWizardStep(): card.innerHTML is the screen of wizardStep, with an
\* empty #status-message and fresh buttons; attachEventListeners().
renderWizardStep ==
    /\ rendered' = wizardStep'
    /\ statusMessage' = "none"
    /\ connectDisabled' = FALSE

\* click on .card-button (allowed whenever the page is open).
card_button_click ==
    /\ WizardOpen
    /\ wizardStep' = 1
    /\ renderWizardStep
    /\ UNCHANGED << wizardData, connectPc, lanne_server_ip, lanne_agent_ip,
                    reloadPending >>
    /\ UNCHANGED << checkerVars, authVars, notUiVars >>

backButton_click_NoGuard ==
    /\ WizardOpen
    /\ rendered \in 1..4
    /\ wizardStep' = wizardStep - 1
    /\ renderWizardStep
    /\ UNCHANGED reloadPending
    /\ UNCHANGED << wizardData, connectPc, lanne_server_ip, lanne_agent_ip >>
    /\ UNCHANGED << checkerVars, authVars, notUiVars >>

\* click on #backButton, the arrow of every wizard screen.
backButton_click ==
    /\ WizardOpen
    /\ rendered \in 1..4
    /\ IF wizardStep > 1
       THEN /\ wizardStep' = wizardStep - 1
            /\ renderWizardStep
            /\ UNCHANGED reloadPending
       ELSE /\ reloadPending' = TRUE
            /\ UNCHANGED << wizardStep, rendered, statusMessage, connectDisabled >>
    /\ UNCHANGED << wizardData, connectPc, lanne_server_ip, lanne_agent_ip >>
    /\ UNCHANGED << checkerVars, authVars, notUiVars >>

\* click on #back-btn, which the screens of steps 2, 3 and 4 have.
back_btn_click ==
    /\ WizardOpen
    /\ rendered \in 2..4
    /\ wizardStep' = wizardStep - 1
    /\ renderWizardStep
    /\ UNCHANGED << wizardData, connectPc, lanne_server_ip, lanne_agent_ip,
                    reloadPending >>
    /\ UNCHANGED << checkerVars, authVars, notUiVars >>

\* showStatus(message, 'error'); return
Refused(message) ==
    /\ statusMessage' = message
    /\ UNCHANGED << wizardStep, wizardData, rendered, connectDisabled >>

\* wizardStep = n; renderWizardStep()
Advance(data, n) ==
    /\ wizardData' = data
    /\ wizardStep' = n
    /\ renderWizardStep

handleNext_NoIpCheck(value) ==
    /\ WizardOpen
    /\ rendered \in 1..3
    /\ wizardStep \in 1..3
    /\ IF wizardStep = 1
       THEN IF trim(value) = << >>
            THEN Refused("Digite um nome de usuario!")
            ELSE IF Len(trim(value)) < 3
                 THEN Refused("O nome deve ter pelo menos 3 caracteres!")
                 ELSE Advance([wizardData EXCEPT !.username = trim(value)], 2)
       ELSE IF wizardStep = 2
            THEN IF wizardData.serverType = "remote"
                 THEN Advance([wizardData EXCEPT !.serverIP = trim(value)], 3)
                 ELSE Advance(wizardData, 3)
            ELSE IF wizardData.agentType = "remote"
                 THEN Advance([wizardData EXCEPT !.agentIP = trim(value)], 4)
                 ELSE Advance(wizardData, 4)
    /\ UNCHANGED << connectPc, lanne_server_ip, lanne_agent_ip, reloadPending >>
    /\ UNCHANGED << checkerVars, authVars, notUiVars >>

\* handleNext(), from a click on #next-btn or Enter in the screen's input;
\* value is what the input of the screen holds.
handleNext(value) ==
    /\ WizardOpen
    /\ rendered \in 1..3
    /\ wizardStep \in 1..3
    /\ IF wizardStep = 1
       THEN IF trim(value) = << >>
            THEN Refused("Digite um nome de usuario!")
            ELSE IF Len(trim(value)) < 3
                 THEN Refused("O nome deve ter pelo menos 3 caracteres!")
                 ELSE Advance([wizardData EXCEPT !.username = trim(value)], 2)
       ELSE IF wizardStep = 2
            THEN IF wizardData.serverType = "remote"
                 THEN IF trim(value) = << >>
                      THEN Refused("Digite o IP do servidor!")
                      ELSE Advance([wizardData EXCEPT !.serverIP = trim(value)], 3)
                 ELSE Advance(wizardData, 3)
            ELSE IF wizardData.agentType = "remote"
                 THEN IF trim(value) = << >>
                      THEN Refused("Digite o IP do agente!")
                      ELSE Advance([wizardData EXCEPT !.agentIP = trim(value)], 4)
                 ELSE Advance(wizardData, 4)
    /\ UNCHANGED << connectPc, lanne_server_ip, lanne_agent_ip, reloadPending >>
    /\ UNCHANGED << checkerVars, authVars, notUiVars >>

ServerTypes == {"localhost", "remote"}

\* click on #server-localhost or #server-remote (screen of step 2).
server_radio_click(type) ==
    /\ WizardOpen
    /\ rendered = 2
    /\ wizardData' = [wizardData EXCEPT !.serverType = type]
    /\ UNCHANGED << wizardStep, rendered, statusMessage, connectPc, connectDisabled,
                    lanne_server_ip, lanne_agent_ip, reloadPending >>
    /\ UNCHANGED << checkerVars, authVars, notUiVars >>

\* click on #agent-localhost or #agent-remote (screen of step 3).
agent_radio_click(type) ==
    /\ WizardOpen
    /\ rendered = 3
    /\ wizardData' = [wizardData EXCEPT !.agentType = type]
    /\ UNCHANGED << wizardStep, rendered, statusMessage, connectPc, connectDisabled,
                    lanne_server_ip, lanne_agent_ip, reloadPending >>
    /\ UNCHANGED << checkerVars, authVars, notUiVars >>

\* setServerIP(ip) / setAgentIP(ip): ip || 'localhost' goes to localStorage.
setIP(ip) == Some(IF ip = << >> THEN localhost ELSE ip)

\* handleConnect(), from a click on the enabled #connect-btn: the IPs are
\* stored and the gateway is tested.
handleConnect ==
    /\ WizardOpen
    /\ rendered = 4
    /\ ~connectDisabled
    /\ connectPc = "idle"
    /\ connectDisabled' = TRUE
    /\ lanne_server_ip' = setIP(IF wizardData.serverType = "localhost"
                                THEN localhost ELSE wizardData.serverIP)
    /\ lanne_agent_ip' = setIP(IF wizardData.agentType = "localhost"
                               THEN localhost ELSE wizardData.agentIP)
    /\ statusMessage' = "Testando conexao com o servidor..."
    /\ connectPc' = "connecting"
    /\ UNCHANGED << wizardStep, wizardData, rendered, reloadPending >>
    /\ UNCHANGED << checkerVars, authVars, notUiVars >>

ConnectOutcomes == {"ok", "error"}

\* handleConnect after its requests: the gateway answered OK and
\* authService.login saved the session of the user the server returned
\* (the agent's configuration may fail), or the test or the login failed.
connect_returns(outcome, user, tok) ==
    /\ WizardOpen
    /\ connectPc = "connecting"
    /\ IF outcome = "ok"
       THEN /\ saveSession(user, tok)
            /\ statusMessage' = "Conectado!"
            /\ connectPc' = "redirecting"
            /\ UNCHANGED connectDisabled
       ELSE /\ UNCHANGED sessionVars
            /\ statusMessage' = "Erro"
            /\ connectPc' = "idle"
            /\ connectDisabled' = FALSE
    /\ UNCHANGED << wizardStep, wizardData, rendered, lanne_server_ip,
                    lanne_agent_ip, reloadPending >>
    /\ UNCHANGED << loginVars, logoutVars, checkerVars, pageVars >>
    /\ UNCHANGED << memVars, orchVars, readVars, parseVars, cancelVars, chatRest >>

\* The timer of handleConnect: window.location.href = "chat.html".
connect_redirect ==
    /\ connectPc = "redirecting"
    /\ connectPc' = "left"
    /\ UNCHANGED << wizardStep, wizardData, rendered, statusMessage,
                    connectDisabled, lanne_server_ip, lanne_agent_ip,
                    reloadPending >>
    /\ UNCHANGED << checkerVars, authVars, notUiVars >>

\* index.html is loaded again, by the scheduled location.reload() or by
\* opening it after the chat: the script runs anew.
wizard_load ==
    /\ reloadPending \/ connectPc = "left"
    /\ wizardStep' = 1
    /\ wizardData' = [username |-> << >>,
                      serverType |-> "localhost",
                      serverIP |-> getItemOrEmpty(lanne_server_ip),
                      agentType |-> "localhost",
                      agentIP |-> getItemOrEmpty(lanne_agent_ip)]
    /\ rendered' = 0
    /\ statusMessage' = "none"
    /\ connectPc' = "idle"
    /\ connectDisabled' = FALSE
    /\ reloadPending' = FALSE
    /\ UNCHANGED << lanne_server_ip, lanne_agent_ip >>
    /\ UNCHANGED << checkerVars, authVars, notUiVars >>

WizardNext ==
    \/ card_button_click
    \/ backButton_click
    \/ back_btn_click
    \/ \E value \in UsernameInputs \cup IpInputs : handleNext(value)
    \/ \E type \in ServerTypes : server_radio_click(type)
    \/ \E type \in ServerTypes : agent_radio_click(type)
    \/ handleConnect
    \/ \E outcome \in ConnectOutcomes, user \in Users, tok \in Tokens :
           connect_returns(outcome, user, tok)
    \/ connect_redirect
    \/ wizard_load

\* The wizard after a connection over localhost: step 4, the chat opened.
WizardConnected ==
    /\ wizardStep = 4
    /\ wizardData = [username |-> << "a", "b", "c" >>,
                     serverType |-> "localhost",
                     serverIP |-> << >>,
                     agentType |-> "localhost",
                     agentIP |-> << >>]
    /\ rendered = 4
    /\ statusMessage = "Conectado!"
    /\ connectPc = "left"
    /\ connectDisabled = TRUE
    /\ lanne_server_ip = Some(localhost)
    /\ lanne_agent_ip = Some(localhost)
    /\ reloadPending = FALSE

\* The pages' state once the user has connected and the chat is open.
Connected == CheckerOk /\ WizardConnected

\* index.html just loaded and nothing stored for the wizard.
UiFresh ==
    /\ CheckerFresh
    /\ lanne_server_ip \in {None, Some(localhost), Some(<< "1" >>)}
    /\ lanne_agent_ip \in {None, Some(localhost)}
    /\ WizardFresh

\* handleConnect stores both IPs before it logs in: a stored session comes
\* with stored IPs.
StoredByConnect ==
    lanne_user # None => lanne_server_ip # None /\ lanne_agent_ip # None

(***************************************************************************)
(* Specifications                                                          *)
(***************************************************************************)

vars == << memVars, orchVars, readVars, chatVars, parseVars, cancelVars, authVars,
          pageVars, uiVars >>

Init ==
    OrchInit /\ MemInit /\ ReadIdle /\ ChatIdle /\ NoReply /\ NoneAbandoned
        /\ SessionOpen /\ PageOpen /\ Connected

Next == OrchNext

Spec == Init /\ [][Next]_vars

ContextInit ==
    CtxInit /\ MemInit /\ ReadIdle /\ ChatIdle /\ NoReply /\ NoneAbandoned
        /\ SessionOpen /\ PageOpen /\ Connected

ContextNext == Assemble

ContextSpec == ContextInit /\ [][ContextNext]_vars

MemoryInit ==
    MemInit /\ OrchInit /\ ReadIdle /\ ChatIdle /\ NoReply /\ NoneAbandoned
        /\ SessionOpen /\ PageOpen /\ Connected

MemoryNext == MemNext

MemorySpec == MemoryInit /\ [][MemoryNext]_vars

ReadInit ==
    FullWindowInit /\ OrchInit /\ ReadIdle /\ ChatIdle /\ NoReply /\ NoneAbandoned
        /\ SessionOpen /\ PageOpen /\ Connected

ReadSpecNext == MemNext \/ ReadNext

ReadSpec == ReadInit /\ [][ReadSpecNext]_vars

ChatInit ==
    ChatIdle /\ OrchInit /\ MemInit /\ ReadIdle /\ NoReply /\ NoneAbandoned
        /\ SessionOpen /\ PageOpen /\ Connected

ChatNext == ChatSteps \/ ChatEvents

ChatSpec == ChatInit /\ [][ChatNext]_vars

CancelInit ==
    FullWindowInit /\ OrchInit /\ ReadIdle /\ ChatIdle /\ NoReply /\ NoneAbandoned
        /\ SessionOpen /\ PageOpen /\ Connected

CancelSpecNext == MemNext \/ CancelNext

CancelSpec == CancelInit /\ [][CancelSpecNext]_vars

AuthInit ==
    AuthFresh /\ NoChat /\ OrchInit /\ MemInit /\ ReadIdle /\ NoReply /\ NoneAbandoned
        /\ UiFresh /\ StoredByConnect

AuthSpecNext == AuthNext

AuthSpec == AuthInit /\ [][AuthSpecNext]_vars

\* index.html after a session: the services are checked, the wizard is used.
UiInit ==
    UiFresh /\ AuthFresh /\ NoChat /\ OrchInit /\ MemInit /\ ReadIdle /\ NoReply
        /\ NoneAbandoned /\ StoredByConnect

CheckerSpecNext == CheckerNext

CheckerSpec == UiInit /\ [][CheckerSpecNext]_vars

WizardSpecNext == WizardNext

WizardSpec == UiInit /\ [][WizardSpecNext]_vars

ParseInit ==
    ReplyInit /\ MemInit /\ ReadIdle /\ ChatIdle /\ NoneAbandoned
        /\ SessionOpen /\ PageOpen /\ Connected

ParseNext == Parse

ParseSpec == ParseInit /\ [][ParseNext]_vars

\* The event loop runs every timer callback and every continuation of an
\* answered request.
ChatLiveSpec == ChatInit /\ [][ChatNext]_vars /\ WF_vars(ChatSteps)

(***************************************************************************)
(* ConversationMemory: properties                                          *)
(***************************************************************************)

RECURSIVE ApplyAll(_)
\* The ConversationState after committing the turns of ts one after the other.
ApplyAll(ts) ==
    IF ts = << >> THEN EmptyState
    ELSE AppendEvict(ApplyAll(SubSeq(ts, 1, Len(ts) - 1)), ts[Len(ts)])

CurrentState(c) ==
    [state |-> convState[c], window |-> window[c], summary |-> summary[c]]

\* C1: after N > windowSize committed turns the window holds exactly the
\* windowSize most recent turns, in order, and the summary covers turns
\* 1..(N - windowSize).
C1_WindowHoldsLastSix ==
    \A c \in ConvIds :
        LET n == Len(committed[c])
        IN  n > windowSize =>
                /\ window[c] = SubSeq(committed[c], n - windowSize + 1, n)
                /\ summary[c] = SubSeq(committed[c], 1, n - windowSize)

C1_Witness ==
    \E c \in ConvIds :
        /\ Len(committed[c]) >= windowSize + 2
        /\ Len(summary[c]) >= 2

\* C2: the summary covers exactly the turns evicted from the window, in
\* chronological order, and no folded turn is still in the window.
C2_SummaryCoversEvicted ==
    \A c \in ConvIds :
        /\ summary[c] \o window[c] = committed[c]
        /\ \A i \in 1..Len(summary[c]), j \in 1..Len(window[c]) :
               summary[c][i] # window[c][j]

C2_Witness ==
    \E c \in ConvIds :
        /\ summary[c] # << >>
        /\ Len(window[c]) = windowSize

\* C3: concurrent commits to one conversation are applied atomically: the
\* stored window and summary are those of applying the committed updates one
\* after the other, with no turn lost, duplicated or split.
C3_AtomicUpdates ==
    \A c \in ConvIds : CurrentState(c) = ApplyAll(committed[c])

\* Two requests overlapped on one conversation (the later-arrived turn was
\* stored first) and both updates, with evictions, are complete.
C3_Witness ==
    \E c \in ConvIds :
        /\ Len(committed[c]) > windowSize
        /\ \E i \in 1..(Len(committed[c]) - 1) :
               committed[c][i].id > committed[c][i + 1].id
        /\ \A p \in Workers : memPc[p] = "idle"

C20_EmptyThenActiveForever ==
    /\ [](\A c \in ConvIds : convState[c] = "EMPTY" <=> committed[c] = << >>)
    /\ [][\A c \in ConvIds :
            /\ (convState[c] = "EMPTY" /\ committed'[c] # << >>) =>
                   /\ convState'[c] = "ACTIVE"
                   /\ summary'[c] = << >>
                   /\ window'[c] = << committed'[c][1] >>
                   /\ Len(committed'[c]) = 1
            /\ (convState[c] = "ACTIVE" => convState'[c] = "ACTIVE")]_vars

\* One conversation took its first turn; another one went on past an eviction.
C20_Witness ==
    \E c, d \in ConvIds :
        /\ convState[c] = "ACTIVE"
        /\ Len(committed[c]) = 1
        /\ window[c] = committed[c]
        /\ convState[d] = "ACTIVE"
        /\ summary[d] # << >>

(***************************************************************************)
(* Orchestration pipeline: properties                                      *)
(***************************************************************************)

\* sub occurs in s starting at position i.
OccursAt(sub, s, i) ==
    /\ i + Len(sub) - 1 <= Len(s)
    /\ SubSeq(s, i, i + Len(sub) - 1) = sub

Contains(s, sub) == \E i \in 1..(Len(s) + 1) : OccursAt(sub, s, i)

SourceField(src) ==
    IF src = "agent" THEN "agent_data"
    ELSE IF src = "rag" THEN "rag_data" ELSE "web_data"

\* C4: every source that failed or timed out is left unset in the
\* ExecutionContext and the request is not failed by it.
C4_FailedSourceAbsorbed ==
    \A src \in {"agent", "rag", "web"} :
        called[src] \in Failures =>
            /\ context[SourceField(src)] = None
            /\ pc # "failed"

\* C5: when the plan asks for retrieval and web search, retrieval times out
\* and web search answers, the request ends with hasData() true and an
\* assembled context that is exactly the web-search block.
C5_WebBlockOnly ==
    ( /\ pc \in {"done", "failed"}
      /\ plan # None
      /\ Get(plan).use_rag
      /\ Get(plan).use_web
      /\ ~Get(plan).use_agent
      /\ answers.rag.kind = "timeout"
      /\ answers.web.kind = "ok" )
    =>  /\ hasData
        /\ assembled = Some(WebHeader \o answers.web.text)

\* Candidate values of the configured similarity threshold, in hundredths.
Thresholds == 1..100

\* C6: whatever the configured threshold, a retrieval answer whose top score
\* is below it is treated as absent: no retrieval block reaches the
\* assembled context.
C6_LowScoreAbsent ==
    \A T \in Thresholds :
        (called.rag = "ok" /\ answers.rag.score < T /\ assembled # None) =>
            ~Contains(Get(assembled), KnowledgeHeader)

\* C7: with agent text A, retrieval text R and web text W all present, the
\* assembled string holds A, then R prefixed as reference material, then W
\* prefixed as external information.
C7_AgentRetrievalWebOrder ==
    ( /\ assembled # None
      /\ Truthy(context.agent_data)
      /\ Truthy(context.rag_data)
      /\ Truthy(context.web_data) )
    =>  LET s == Get(assembled)
            A == Get(context.agent_data)
            R == KnowledgeHeader \o Get(context.rag_data)
            W == WebHeader \o Get(context.web_data)
        IN  \E i, j, k \in 1..Len(s) :
                /\ OccursAt(A, s, i)
                /\ OccursAt(R, s, j)
                /\ OccursAt(W, s, k)
                /\ i + Len(A) <= j
                /\ j + Len(R) <= k

C7_Witness ==
    /\ pc = "ctx_done"
    /\ Truthy(context.agent_data)
    /\ Truthy(context.rag_data)
    /\ Truthy(context.web_data)
    /\ context.agent_data = context.web_data

DataFields == {"agent_data", "rag_data", "web_data"}

\* C8 as claimed: hasData() is true iff at least one optional field is
\* populated, and when it is false the assembled context is empty.
C8_HasDataIffPopulated ==
    assembled # None =>
        /\ (hasData <=> (\E f \in DataFields : context[f] # None))
        /\ (~hasData => assembled = Some(<< >>))

\* C8 amended: hasData() is true iff at least one optional field holds a
\* non-empty text, and when it is false the assembled context is empty.
C8_HasDataIffNonEmpty ==
    assembled # None =>
        /\ (hasData <=>
               (\E f \in DataFields : context[f] # None /\ Len(Get(context[f])) > 0))
        /\ (~hasData => assembled = Some(<< >>))

\* A context whose only populated field holds the empty text.
C8_Witness ==
    /\ pc = "ctx_done"
    /\ context.agent_data = Some(<< >>)
    /\ context.rag_data = None
    /\ context.web_data = None
    /\ ~hasData
    /\ assembled = Some(<< >>)

\* C9: for a GREETING or CASUAL query plan construction makes no planner
\* call and yields a plan with every use flag false and style CHAT.
C9_TrivialPlan ==
    (pc \notin {"idle", "classify"} /\ intent \in {"GREETING", "CASUAL"}) =>
        /\ planner = "not_called"
        /\ plan # None
        /\ ~Get(plan).use_agent
        /\ ~Get(plan).use_rag
        /\ ~Get(plan).use_web
        /\ Get(plan).response_style = "CHAT"

ConservativePlan == [ExecutionPlan("TECHNICAL") EXCEPT !.use_rag = TRUE]

\* C10: when the planner call of a TECHNICAL query fails or times out, the
\* plan is the conservative retrieval-only default and the request goes on.
C10_ConservativeDefault ==
    (intent = "TECHNICAL" /\ planner \in Failures) =>
        /\ plan = Some(ConservativePlan)
        /\ pc # "failed"

\* C11: while a GREETING query is handled no agent, retrieval or web-search
\* call is made and no planning call: the generation collaborator is called
\* for the final answer only.
C11_GreetingCallsGenerationOnly ==
    intent = "GREETING" =>
        /\ \A src \in {"agent", "rag", "web"} : called[src] = "not_called"
        /\ planner = "not_called"
        /\ Len(llmReplies) <= 1
        /\ (llmReplies # << >> => assembled # None)

C11_Witness ==
    /\ intent = "GREETING"
    /\ pc = "done"
    /\ llmReplies = << "ok" >>
    /\ answer = Some(AnswerText)

\* The text the claim expects when generation failed twice.
ApologyText == << "apology" >>

\* C12: when the generation call for the final answer fails it is retried
\* exactly once, and when the retry fails too the answer is the apology
\* text: the request ends with an answer, never with the error.
C12_RetryOnceThenApology ==
    (pc \in {"persist", "done", "failed"} /\ llmReplies # << >>
        /\ llmReplies[1] \in Failures) =>
        /\ Len(llmReplies) = 2
        /\ answer # None
        /\ (llmReplies[2] \in Failures => answer = Some(ApologyText))
        /\ pc # "failed"

\* The source calls the plan of the request asks for.
Requested(src) ==
    /\ plan # None
    /\ IF src = "agent" THEN Get(plan).use_agent
       ELSE IF src = "rag" THEN Get(plan).use_rag ELSE Get(plan).use_web

\* The call to src has been issued and has not returned yet.
InFlight(src) ==
    \/ src = "agent" /\ pc = "agent_call"
    \/ src = "rag" /\ pc = "rag_call"

Finished(src) == called[src] # "not_called"

\* C15: the source calls the plan asks for are started together (while one
\* is in flight every other one is in flight or has ended) and all have
\* ended when the context is assembled.
C15_ConcurrentFanOut ==
    \A s, t \in {"agent", "rag", "web"} :
        (Requested(s) /\ Requested(t)) =>
            /\ (InFlight(s) => (InFlight(t) \/ Finished(t)))
            /\ (assembled # None => Finished(t))

\* C16: once execute_plan has returned, a source collaborator has been
\* called (once) exactly when its plan flag is true.
C16_OneCallPerFlag ==
    (plan # None /\ pc \in {"generate", "persist", "done"}) =>
        \A src \in {"agent", "rag", "web"} : Finished(src) <=> Requested(src)

StepOrder == << "classify", "plan", "execute", "assemble", "generate", "persist" >>

StepRank(step) == CHOOSE i \in 1..Len(StepOrder) : StepOrder[i] = step

C18_ClassifierNeverThrows ==
    prediction # "none" =>
        /\ intent \in Intents
        /\ (prediction = "error" => intent = "TECHNICAL")
        /\ failure # "classifier"

C18_Witness ==
    /\ prediction = "error"
    /\ intent = "TECHNICAL"
    /\ pc = "planner_call"

(***************************************************************************)
(* The chat page: properties                                               *)
(***************************************************************************)

\* C13: a failure to save the turn never costs the user the answer: once
\* the exchange is over, an answer the gateway returned is the one shown.
C13_AnswerSurvivesSaveFailure ==
    (chatPc = "idle" /\ botResponse # None) => shown = "answer"

\* C14: every request the page awaits is bounded in time, so an accepted
\* message is eventually dealt with even when a service never answers.
C14_EveryRequestCompletes ==
    isWaitingForResponse ~> ~isWaitingForResponse

(***************************************************************************)
(* ConversationMemory: cancellation and independent conversations          *)
(***************************************************************************)

TurnIds(ts) == {ts[i].id : i \in 1..Len(ts)}

StateOf(c) == << convState[c], window[c], summary[c], committed[c] >>

\* C23: requests for different conversation ids share no mutable state: a
\* step changes the stored state of a conversation only when it is the store
\* of an update for that very conversation, and the working copy of a
\* request only when it is that request's own step.
C23_IndependentConversations ==
    [][/\ \A c \in ConvIds :
              StateOf(c)' # StateOf(c) =>
                  \E p \in Workers :
                      memPc[p] = "updated" /\ memConv[p] = c /\ memPc'[p] = "idle"
       /\ \A q \in Workers :
              memLocal'[q] # memLocal[q] => memPc'[q] # memPc[q]]_vars

\* Two updates for different conversations are in progress at once, both
\* conversations already holding turns.
C23_Witness ==
    /\ memPc["w1"] = "updated"
    /\ memPc["w2"] = "updated"
    /\ memConv["w1"] # memConv["w2"]
    /\ \A c \in ConvIds : window[c] # << >>

(***************************************************************************)
(* execute_plan and build_context: sources the plan does not use           *)
(***************************************************************************)

\* C25: a source whose use flag is false in the plan contributes nothing to
\* the assembled context: it is not called, its field stays None and its
\* block is absent; with retrieval alone in the plan and answering a text
\* with score 0.82, the assembled context is the retrieval block and nothing
\* else, under its reference-material header.
C25_UnusedSourceContributesNothing ==
    (assembled # None /\ plan # None) =>
        LET p == Get(plan)
        IN  /\ ~p.use_agent =>
                   called.agent = "not_called" /\ context.agent_data = None
            /\ ~p.use_rag =>
                   /\ called.rag = "not_called" /\ context.rag_data = None
                   /\ ~Contains(Get(assembled), KnowledgeHeader)
            /\ ~p.use_web =>
                   /\ called.web = "not_called" /\ context.web_data = None
                   /\ ~Contains(Get(assembled), WebHeader)
            /\ (/\ p.use_rag /\ ~p.use_web /\ ~p.use_agent
                /\ answers.rag.kind = "ok" /\ answers.rag.score = 82
                /\ answers.rag.text # << >>)
                   => Get(assembled) = KnowledgeHeader \o answers.rag.text

C25_Witness ==
    /\ assembled = Some(KnowledgeHeader \o << "y", "x" >>)
    /\ plan # None
    /\ Get(plan).use_rag /\ ~Get(plan).use_web /\ ~Get(plan).use_agent
    /\ answers.rag.score = 82
    /\ answers.web.kind = "ok"

(***************************************************************************)
(* parse_plan: properties                                                  *)
(***************************************************************************)

PlanFlags == {"use_agent", "use_rag", "use_web"}

\* C21: parsing the planner's reply never fails: whatever the reply, the
\* result is a valid ExecutionPlan in which every flag the reply does not
\* carry is false and a style it does not carry is CHAT, and a field the plan
\* does not have changes nothing in the result.
C21_ParseNeverFails ==
    pc = "parsed" =>
        LET reply == Get(plannerReply)
        IN  /\ plan # None
            /\ Get(plan) \in ValidPlans
            /\ \A f \in PlanFlags : reply[f] = "missing" => ~Get(plan)[f]
            /\ \A f \in PlanFlags : Get(plan)[f] <=> reply[f] = "true"
            /\ reply.response_style = "missing" => Get(plan).response_style = "CHAT"
            /\ reply.response_style \in ResponseStyles
                   => Get(plan).response_style = reply.response_style
            /\ Get(plan) = parse_plan([reply EXCEPT !.confidence = "absent"])

C21_Witness ==
    /\ pc = "parsed"
    /\ Get(plannerReply).use_rag = "missing"
    /\ Get(plannerReply).use_agent = "maybe"
    /\ Get(plannerReply).response_style = "missing"
    /\ Get(plannerReply).confidence = "high"
    /\ Get(plan).response_style = "CHAT"

(***************************************************************************)
(* sendChatMessage: its requests and what they store                       *)
(***************************************************************************)

Ops(log) == [i \in 1..Len(log) |-> log[i].op]

IsPrefix(s, t) == Len(s) <= Len(t) /\ s = SubSeq(t, 1, Len(s))

\* The order of the awaits in sendChatMessage.
SendOrder == << "create", "add_user", "gateway", "add_assistant" >>

\* The conversation service holds message n of that role, sent by the client.
ClientStored(role, n) ==
    \E c \in ConvIds : \E i \in 1..Len(messages[c]) :
        messages[c][i] = [role |-> role, n |-> n, by |-> "client"]

\* C24: a chat request is routed to the Orchestrator only after the Gateway
\* validated its JWT: every chat request that was answered with a bot
\* response carried a JWT.
C24_AnsweredOnlyWithJwt ==
    botResponse # None =>
        \E i \in 1..Len(requests) :
            requests[i].op = "gateway" /\ requests[i].authorization # "none"

\* C26: sendChatMessage creates a conversation first when none is current,
\* stores the user message before it calls the gateway, stores the assistant
\* reply only after the gateway answered successfully, and when a step fails
\* no later step is executed and the error reaches the caller.
C26_SendChatMessageOrder ==
    /\ \/ IsPrefix(Ops(requests), SendOrder)
       \/ IsPrefix(Ops(requests), Tail(SendOrder))
    /\ requests # << >> =>
           (requests[1].op = "create" <=> requests[1].conv = "null")
    /\ \A i \in 1..Len(requests) :
           /\ i < Len(requests) => requests[i].result = "ok"
           /\ requests[i].op = "gateway" => ClientStored("user", requests[i].n)
           /\ requests[i].op = "add_assistant" => botResponse = Some(requests[i].n)
    /\ chatPc # "timer" /\ ClientStored("assistant", exchanges) =>
           /\ botResponse = Some(exchanges)
           /\ \E i \in 1..Len(requests) :
                  requests[i].op = "gateway" /\ requests[i].result = "ok"
    /\ (requests # << >> /\ requests[Len(requests)].result = "error") =>
           chatPc = "idle" /\ shown = "error"

\* A call that created the conversation and completed all four steps.
C26_Witness ==
    /\ Ops(requests) = SendOrder
    /\ requests[4].result = "ok"
    /\ ClientStored("assistant", exchanges)

\* C27: the user message, the gateway request and the assistant reply of one
\* sendChatMessage call all name the same conversation id.
C27_OneConversationPerCall ==
    \A i, j \in 1..Len(requests) :
        (requests[i].op # "create" /\ requests[j].op # "create") =>
            requests[i].conv = requests[j].conv

\* C28: at most one chat request is in flight per page: a call is under way
\* exactly while isWaitingForResponse is set, and while it is set no step
\* accepts a message, schedules generateBotResponse or starts sendChatMessage
\* other than the scheduled callback itself.
C28_AtMostOneInFlight ==
    /\ [](chatPc # "idle" <=> isWaitingForResponse)
    /\ [][isWaitingForResponse =>
              /\ exchanges' = exchanges
              /\ chatPc' = "timer" => chatPc = "timer"
              /\ (/\ requests' # requests
                  /\ Len(requests') = 1
                  /\ requests'[1].result = "pending") => chatPc = "timer"]_vars

\* A request is awaited and the page would accept input were the flag unset.
C28_Witness ==
    /\ isWaitingForResponse
    /\ chatPc = "gateway"
    /\ exchanges = 1
    /\ exchanges < MaxMessages

\* C29: after every accepted outgoing message isWaitingForResponse
\* eventually becomes false again.
C29_InputNeverBlocked ==
    \A k \in 1..MaxMessages :
        (exchanges = k /\ isWaitingForResponse)
            ~> (exchanges = k /\ ~isWaitingForResponse)

\* C30: each user message and each assistant reply of an exchange is in the
\* conversation store exactly once.
C30_StoredExactlyOnce ==
    \A c, d \in ConvIds :
        \A i \in 1..Len(messages[c]), j \in 1..Len(messages[d]) :
            (/\ messages[c][i].role = messages[d][j].role
             /\ messages[c][i].n = messages[d][j].n) => (c = d /\ i = j)

(***************************************************************************)
(* AuthService and the chat.html guard: properties                         *)
(***************************************************************************)

LastCall == authLog[Len(authLog)]

\* The session in memory and in localStorage is that of user and tok.
SessionIs(user, tok) ==
    /\ currentUser = user
    /\ token = tok
    /\ lanne_user = Some(JSON_stringify(user))
    /\ lanne_token = Some(tok)

\* No session in memory nor in localStorage.
NoSession ==
    /\ currentUser = "null"
    /\ token = "null"
    /\ lanne_user = None
    /\ lanne_token = None

\* C31: login first calls /login and calls /register only when /login
\* answered 404 (and always then); when the last response is OK the user and
\* the token it returned become the session, in memory and in localStorage,
\* and login returns.
C31_LoginThenRegisterOn404 ==
    /\ [](/\ Len(authLog) <= 2
          /\ authLog # << >> =>
                 /\ authLog[1].url = "/login"
                 /\ authLog[1].status = "404" <=> Len(authLog) = 2
                 /\ Len(authLog) = 2 => authLog[2].url = "/register"
                 /\ loginResult = "returned" <=> LastCall.status = "ok")
    /\ [][(authLog' # << >> /\ authLog' # authLog
              /\ authLog'[Len(authLog')].status = "ok") =>
                 /\ userData' # None
                 /\ Get(userData').user = loginUser
                 /\ currentUser' = Get(userData').user
                 /\ token' = Get(userData').token
                 /\ lanne_user' = Some(JSON_stringify(Get(userData').user))
                 /\ lanne_token' = Some(Get(userData').token)]_vars

\* /login answered 404, /register answered OK and the session is the one
\* returned.
C31_Witness ==
    /\ Len(authLog) = 2
    /\ LastCall.status = "ok"
    /\ loginResult = "returned"
    /\ userData # None
    /\ SessionIs(Get(userData).user, Get(userData).token)

\* C32: currentUser and token are both null or both set, they agree with the
\* lanne_user and lanne_token entries of localStorage (absent when null), and
\* isAuthenticated() is true exactly when both are set.
C32_SessionConsistent ==
    /\ currentUser = "null" <=> token = "null"
    /\ IF currentUser = "null"
       THEN lanne_user = None /\ lanne_token = None
       ELSE lanne_user = Some(JSON_stringify(currentUser)) /\ lanne_token = Some(token)
    /\ isAuthenticated <=> (currentUser \in Users /\ token \in Tokens)

\* A login that followed a logout, while another logout is awaiting /logout.
C32_Witness ==
    /\ SessionIs("u2", "t2")
    /\ loginResult = "returned"
    /\ logoutPc = "logout"

\* C33: a login that fails (network error, or a response of /login or
\* /register that is not OK) throws and leaves currentUser, token and the
\* localStorage entries as they were.
C33_FailedLoginKeepsSession ==
    /\ [](authLog # << >> /\ LastCall.status \notin {"ok", "pending"}
              => loginResult = "thrown" /\ loginPc = "idle")
    /\ [][(loginResult = "pending" /\ loginResult' = "thrown")
              => UNCHANGED sessionVars]_vars

\* The register request of a login for u2 failed while u1's session was held.
C33_Witness ==
    /\ loginResult = "thrown"
    /\ loginUser = "u2"
    /\ Len(authLog) = 2
    /\ LastCall.status = "network"
    /\ SessionIs("u1", "t1")

\* C34: logout always ends with the session cleared, in memory and in
\* localStorage, whatever became of the /logout request and also without a
\* token, and it never throws.
C34_LogoutAlwaysClears ==
    /\ [](logoutResult # "thrown")
    /\ [][(logoutResult' # logoutResult /\ logoutResult' \notin {"pending", "none"})
              => /\ logoutResult' = "returned"
                 /\ currentUser' = "null" /\ token' = "null"
                 /\ lanne_user' = None /\ lanne_token' = None]_vars

\* The /logout request failed on the network and the session is gone.
C34_Witness ==
    /\ logoutResult = "returned"
    /\ logoutAnswer = "network"
    /\ NoSession

\* The guard will take no further step.
GuardAtRest == guardPc # "start" /\ (guardPc = "validating" => validateHung)

\* C35: chat.html without a stored session redirects to index.html and loads
\* no conversation; a token that validateToken reports invalid has the
\* session cleared and the page redirected; the page stays open only with a
\* session whose token validated.
C35_ChatOpenOnlyWhenValidated ==
    /\ initPc = "redirected" => ~historyLoaded /\ location = "index.html"
    /\ guardPc = "rejected" => NoSession /\ location = "index.html"
    /\ (page = "chat.html" /\ location = "chat.html" /\ GuardAtRest)
           => guardPc = "passed"

(***************************************************************************)
(* ServiceChecker and the login wizard: properties                         *)
(***************************************************************************)

AllAvailable(results) ==
    FullCheck(results) /\ \A i \in 1..Len(results) : results[i].answered = "ok"

\* C36: initialize checks every required service and ends with the offline
\* modal listing the unavailable services exactly when at least one is
\* unavailable; servicesOk turns true only in the step that ends a full check
\* (of initialize or of the retry button) in which every service answered OK,
\* so never through the ignore button; a service whose request fails, is
\* answered not-OK or times out is recorded as unavailable.
C36_ServicesOkOnlyAfterFullOkCheck ==
    /\ [](\A i \in 1..Len(servicesStatus) :
              servicesStatus[i].available <=> servicesStatus[i].answered = "ok")
    /\ [](\A i \in 1..Len(newStatus) :
              newStatus[i].available <=> newStatus[i].answered = "ok")
    /\ [](initializePc = "done" => FullCheck(servicesStatus))
    /\ [][(initializePc = "checking" /\ initializePc' = "done")
            => /\ (modal' # None) <=> ~AllAvailable(servicesStatus')
               /\ modal' # None
                    => Get(modal') = {servicesStatus'[i].name :
                                        i \in {j \in 1..Len(servicesStatus') :
                                                  servicesStatus'[j].answered # "ok"}}
               /\ servicesOk' <=> AllAvailable(servicesStatus')]_vars
    /\ [][(~servicesOk /\ servicesOk')
            => \/ initializePc = "checking" /\ AllAvailable(servicesStatus')
               \/ retryPc = "checking" /\ AllAvailable(newStatus')]_vars
    /\ [][(modal # None /\ modal' = None /\ retryPc' # "reloading")
            => UNCHANGED servicesOk]_vars

\* initialize ended with the modal listing one service that timed out; the
\* modal was then ignored and servicesOk is still false.
C36_Witness ==
    /\ initializePc = "done"
    /\ Len(servicesStatus) = 3
    /\ servicesStatus[1].answered = "ok"
    /\ servicesStatus[2].answered = "timeout"
    /\ servicesStatus[3].answered = "ok"
    /\ modal = None
    /\ alerted # None
    /\ ~servicesOk

\* C37: at wizard steps 3 and 4 the stored username has at least 3
\* characters and a remote server comes with a non-empty serverIP; at step 4
\* a remote agent comes with a non-empty agentIP.
C37_WizardDataValidated ==
    /\ wizardStep \in {3, 4}
         => /\ Len(wizardData.username) >= 3
            /\ wizardData.serverType = "remote" => wizardData.serverIP # << >>
    /\ wizardStep = 4
         => (wizardData.agentType = "remote" => wizardData.agentIP # << >>)

\* Step 4 reached with a remote server and a remote agent.
C37_Witness ==
    /\ wizardStep = 4
    /\ wizardData.serverType = "remote"
    /\ wizardData.agentType = "remote"
    /\ rendered = 4

\* C38: wizardStep stays in 1..4; it grows only by one, in a handleNext that
\* passed the validation of the screen it was on.
C38_WizardStepInRange ==
    /\ [](wizardStep \in 1..4)
    /\ [][wizardStep' > wizardStep
            => /\ wizardStep' = wizardStep + 1
               /\ rendered = wizardStep
               /\ rendered' = wizardStep'
               /\ wizardStep = 1 => Len(wizardData'.username) >= 3
               /\ (wizardStep = 2 /\ wizardData.serverType = "remote")
                    => wizardData'.serverIP # << >>
               /\ (wizardStep = 3 /\ wizardData.agentType = "remote")
                    => wizardData'.agentIP # << >>]_vars

\* Back at step 1 after having gone forward, the arrow clicked on step 1 and
\* a connection attempt behind.
C38_Witness ==
    /\ wizardStep = 1
    /\ reloadPending
    /\ wizardData.username # << >>
    /\ lanne_server_ip = Some(<< "1" >>)
    /\ rendered = 1

====
